---- MODULE Spec2Model ----
(***************************************************************************)
(* A model of the data-profiling core of DataViz                           *)
(* (src/src/utils/dataProcessing.ts): column-name sanitization, value      *)
(* coercion, column pruning and profile assembly (generateDatasetProfile), *)
(* type inference (detectColumnType) and the filter evaluator              *)
(* (applyFilters).                                                         *)
(*                                                                         *)
(* JavaScript strings are modelled as sequences of one-character strings,  *)
(* so that trim, the regular expressions and the template literals of the  *)
(* source are computed character by character.                             *)
(***************************************************************************)
EXTENDS Integers, Sequences, FiniteSets, TLC

VARIABLES
    rawColumnNames, \* sanitizer run: Object.keys(firstRow), or the names fed back in
    nameMap,        \* sanitizer run: the sanitized names, in key order
    resanitized,    \* sanitizer run: the sanitizer's output on the names of nameMap
    data,           \* generateDatasetProfile: its argument, [present, rows]
    profile,        \* generateDatasetProfile: the thrown error or the returned profile
    values,         \* detectColumnType: its argument
    detected,       \* detectColumnType: "none" or the returned type
    fData,          \* applyFilters: the row list passed in
    fFilters,       \* applyFilters: the filter list passed in
    fResult,        \* applyFilters: the returned row list
    sData,          \* generateColumnStats: the row list passed in
    sColumn,        \* generateColumnStats: the column name passed in
    stats,          \* generateColumnStats: the returned statistics
    aColumns,       \* computeLocalAnalytics: the columns of the profile passed in
    aRows,          \* computeLocalAnalytics: the row list passed in
    lines,          \* computeLocalAnalytics: the returned insight lines
    pearsonX,       \* pearson: the list x passed in
    pearsonY,       \* pearson: the list y passed in
    pearsonXY,      \* pearson: the double returned by pearson(x, y)
    pearsonYX,      \* pearson: the double returned by pearson(y, x)
    dataset,        \* Dashboard state: the dataset profile, NoProfile while null
    rawData,        \* Dashboard state: the rows shown
    filterConfigs,  \* Dashboard state: `filters`, the FilterConfig list
    visualizations, \* Dashboard state: the ingestion the shown suggestions were made for
    origin,         \* the ingestion that last set dataset, rawData and filters
    hash,           \* window.location.hash
    mounted,        \* whether the Dashboard has mounted and its effects have run
    ingestions,     \* the ingestions started so far, each with its pending step
    parser,         \* what parseDataFile and parseFromUrl resolve to, per source name
    fallbackDate,   \* what the engine's fallback date parser answered in the last call
    pc              \* how far the run is: "start", then "sanitized", "resanitized",
                    \* "profiled", "detected", "filtered", "described", "analyzed",
                    \* "correlated" or "swapped" once the call has returned

vars == <<rawColumnNames, nameMap, resanitized, data, profile, values, detected,
          fData, fFilters, fResult, sData, sColumn, stats, aColumns, aRows, lines,
          pearsonX, pearsonY, pearsonXY, pearsonYX, dataset, rawData,
          filterConfigs, visualizations, origin, hash, mounted, ingestions, parser,
          fallbackDate, pc>>

pearsonVars == <<pearsonX, pearsonY, pearsonXY, pearsonYX>>

dashboardVars ==
    <<dataset, rawData, filterConfigs, visualizations, origin, hash, mounted, ingestions,
      parser>>

(***************************************************************************)
(* Bounds of the model.                                                    *)
(***************************************************************************)
MaxKeys == 3        \* raw column keys in a sanitizer run
MaxRows == 2        \* rows passed to generateDatasetProfile
MaxValues == 5      \* values passed to detectColumnType
MaxFilterRows == 2  \* rows passed to applyFilters
MaxFilters == 2     \* filters passed to applyFilters

(***************************************************************************)
(* Strings.                                                                *)
(***************************************************************************)
Digits == <<"0", "1", "2", "3", "4", "5", "6", "7", "8", "9">>

IsDigit(c) == \E i \in 1..10 : Digits[i] = c

DigitVal(c) == (CHOOSE i \in 1..10 : Digits[i] = c) - 1

UpperChars == <<"A", "B", "C", "D", "E", "F", "G", "H", "I", "J", "K", "L", "M",
                "N", "O", "P", "Q", "R", "S", "T", "U", "V", "W", "X", "Y", "Z">>

LowerChars == <<"a", "b", "c", "d", "e", "f", "g", "h", "i", "j", "k", "l", "m",
                "n", "o", "p", "q", "r", "s", "t", "u", "v", "w", "x", "y", "z">>

\* String.prototype.toLowerCase, one character
LowerChar(c) ==
    IF \E i \in 1..26 : UpperChars[i] = c
    THEN LowerChars[CHOOSE i \in 1..26 : UpperChars[i] = c]
    ELSE c

\* String.prototype.toLowerCase
ToLowerCase(s) == [i \in 1..Len(s) |-> LowerChar(s[i])]

\* white space as trim() and \s see it (the model's alphabet holds the space only)
IsSpace(c) == c = " "

RECURSIVE TrimStart(_)
TrimStart(s) ==
    IF s # <<>> /\ IsSpace(Head(s)) THEN TrimStart(Tail(s)) ELSE s

RECURSIVE TrimEnd(_)
TrimEnd(s) ==
    IF s # <<>> /\ IsSpace(s[Len(s)]) THEN TrimEnd(SubSeq(s, 1, Len(s) - 1)) ELSE s

\* String.prototype.trim
Trim(s) == TrimEnd(TrimStart(s))

\* the decimal digits of a natural number, as a template literal prints it
RECURSIVE NatToString(_)
NatToString(n) ==
    IF n < 10 THEN <<Digits[n + 1]>>
    ELSE NatToString(n \div 10) \o <<Digits[(n % 10) + 1]>>

\* s starts with the characters of p
StartsWith(s, p) == Len(s) >= Len(p) /\ SubSeq(s, 1, Len(p)) = p

SeqToSet(s) == {s[i] : i \in 1..Len(s)}

(***************************************************************************)
(* Column-name sanitization.                                               *)
(***************************************************************************)
\* /^_+\d+$/.test(s)
MatchesAutoNumbered(s) ==
    \E k \in 1..(Len(s) - 1) :
        /\ \A i \in 1..k : s[i] = "_"
        /\ \A i \in (k + 1)..Len(s) : IsDigit(s[i])

\* /^__?EMPTY.*$/i.test(s)
MatchesEmptyMarker(s) ==
    LET l == ToLowerCase(s)
    IN  \/ StartsWith(l, <<"_", "e", "m", "p", "t", "y">>)
        \/ StartsWith(l, <<"_", "_", "e", "m", "p", "t", "y">>)

\* the `invalid` flag of sanitize
Invalid(trimmed) ==
    trimmed = <<>> \/ MatchesAutoNumbered(trimmed) \/ MatchesEmptyMarker(trimmed)

\* DedupLoop with `if` in place of `while`: one suffix, not checked again
DedupOnce(candidate, suffix, existing) ==
    IF candidate \in {existing[i] : i \in 1..Len(existing)}
    THEN candidate \o <<"_">> \o NatToString(suffix)
    ELSE candidate

\* the while loop of sanitize: suffix the candidate until no existing name equals it
RECURSIVE DedupLoop(_, _, _)
DedupLoop(candidate, suffix, existing) ==
    IF candidate \in SeqToSet(existing)
    THEN DedupLoop(candidate \o <<"_">> \o NatToString(suffix), suffix + 1, existing)
    ELSE candidate

\* sanitize(name) with the closed-over nameMap values and colCounter made explicit;
\* returns the name and the colCounter after the call
Sanitize(name, existing, colCounter) ==
    LET trimmed == Trim(name)
        invalid == Invalid(trimmed)
        candidate == IF invalid
                     THEN <<"C", "o", "l", "u", "m", "n", "_">> \o NatToString(colCounter)
                     ELSE trimmed
    IN  [name |-> DedupLoop(candidate, 1, existing),
         colCounter |-> IF invalid THEN colCounter + 1 ELSE colCounter]

\* rawColumnNames.forEach((n) => nameMap.set(n, sanitize(n))), colCounter starting at 1;
\* the keys are distinct, so nameMap.values() is the list of names in key order
RECURSIVE SanitizeFrom(_, _, _)
SanitizeFrom(keys, existing, colCounter) ==
    IF keys = <<>> THEN existing
    ELSE LET r == Sanitize(Head(keys), existing, colCounter)
         IN  SanitizeFrom(Tail(keys), Append(existing, r.name), r.colCounter)

SanitizeAll(keys) == SanitizeFrom(keys, <<>>, 1)

(***************************************************************************)
(* JavaScript values.  A value is a record [t, s, m, e]: t is its type tag, *)
(* s the characters of a string, and m, e a finite number m / 10^e kept    *)
(* normalised (e = 0, or m not divisible by 10), so that equal numbers are *)
(* equal records and e = 0 exactly for the integers.  Booleans keep their  *)
(* truth value in m (1 or 0).  NaN is a value of its own tag.              *)
(***************************************************************************)
Val(t, s, m, e) == [t |-> t, s |-> s, m |-> m, e |-> e]

Undefined == Val("undefined", <<>>, 0, 0)
Null == Val("null", <<>>, 0, 0)
NaN == Val("NaN", <<>>, 0, 0)
Str(s) == Val("string", s, 0, 0)
Bool(b) == Val("boolean", <<>>, IF b THEN 1 ELSE 0, 0)
EmptyString == Str(<<>>)

RECURSIVE Pow10(_)
Pow10(n) == IF n = 0 THEN 1 ELSE 10 * Pow10(n - 1)

RECURSIVE Num(_, _)
Num(m, e) ==
    IF e > 0 /\ m % 10 = 0 THEN Num(m \div 10, e - 1) ELSE Val("number", <<>>, m, e)

IsNaN(v) == v.t = "NaN"

\* a <= b, a = b on finite numbers
NumLE(a, b) == a.m * Pow10(b.e) <= b.m * Pow10(a.e)
NumMin(a, b) == IF NumLE(a, b) THEN a ELSE b
NumMax(a, b) == IF NumLE(a, b) THEN b ELSE a

\* Number.isInteger on a finite number
IsInteger(n) == n.t = "number" /\ n.e = 0

AllDigits(s) == \A i \in 1..Len(s) : IsDigit(s[i])

RECURSIVE DigitsToNat(_)
DigitsToNat(s) ==
    IF s = <<>> THEN 0 ELSE 10 * DigitsToNat(SubSeq(s, 1, Len(s) - 1)) + DigitVal(s[Len(s)])

HasSign(s) == s # <<>> /\ s[1] \in {"+", "-"}
Unsigned(s) == IF HasSign(s) THEN Tail(s) ELSE s
SignOf(s) == IF s # <<>> /\ s[1] = "-" THEN -1 ELSE 1

\* the position of the first "." of s, or Len(s) + 1
DotPos(s) ==
    IF \E i \in 1..Len(s) : s[i] = "."
    THEN CHOOSE i \in 1..Len(s) : s[i] = "." /\ \A j \in 1..(i - 1) : s[j] # "."
    ELSE Len(s) + 1

IntPart(s) == SubSeq(s, 1, DotPos(s) - 1)
FracPart(s) == SubSeq(s, DotPos(s) + 1, Len(s))
HasDot(s) == DotPos(s) <= Len(s)

\* the number written sign, integer digits, fraction digits
Decimal(sign, int, frac) == Num(sign * (DigitsToNat(int) * Pow10(Len(frac)) + DigitsToNat(frac)), Len(frac))

\* /^[+-]?\d+(?:\.\d+)?$/.test(s)
SimpleNumericPattern(s) ==
    LET u == Unsigned(s)
    IN  /\ IntPart(u) # <<>> /\ AllDigits(IntPart(u))
        /\ HasDot(u) => (FracPart(u) # <<>> /\ AllDigits(FracPart(u)))

\* \d{1,3}(?:[ ,]\d{3})+ matches all of s
ThousandsGroups(s) ==
    \E g \in 1..3 :
        /\ Len(s) > g /\ (Len(s) - g) % 4 = 0
        /\ \A i \in 1..g : IsDigit(s[i])
        /\ \A i \in (g + 1)..Len(s) :
              IF (i - g) % 4 = 1 THEN s[i] \in {" ", ","} ELSE IsDigit(s[i])

\* /^[+-]?\d{1,3}(?:[ ,]\d{3})+(?:\.\d+)?$/.test(s)
ThousandsPattern(s) ==
    LET u == Unsigned(s)
    IN  /\ ThousandsGroups(IntPart(u))
        /\ HasDot(u) => (FracPart(u) # <<>> /\ AllDigits(FracPart(u)))

\* s.replace(/[,\s]/g, '')
StripSeparators(s) == SelectSeq(s, LAMBDA c : c # "," /\ ~IsSpace(c))

\* Number(s) for a string s: white space trimmed, "" is 0, a signed decimal literal
\* (digits optional on one side of the point) is its value, anything else NaN.
\* Exponents, Infinity and the 0x/0o/0b forms are outside the model's strings.
StringToNumber(s) ==
    LET t == Trim(s)
        u == Unsigned(t)
    IN  IF t = <<>> THEN Num(0, 0)
        ELSE IF /\ AllDigits(IntPart(u)) /\ AllDigits(FracPart(u))
                /\ (IntPart(u) # <<>> \/ FracPart(u) # <<>>)
             THEN Decimal(SignOf(t), IntPart(u), FracPart(u))
             ELSE NaN

\* the longest prefix of s made of digits
RECURSIVE DigitPrefix(_)
DigitPrefix(s) ==
    IF s # <<>> /\ IsDigit(Head(s)) THEN <<Head(s)>> \o DigitPrefix(Tail(s)) ELSE <<>>

\* parseFloat(s) for a string s: leading white space skipped, then the longest
\* prefix that is a signed decimal literal; NaN when there is none.
ParseFloatString(s) ==
    LET t == TrimStart(s)
        u == Unsigned(t)
        int == DigitPrefix(u)
        rest == SubSeq(u, Len(int) + 1, Len(u))
        frac == IF rest # <<>> /\ Head(rest) = "." THEN DigitPrefix(Tail(rest)) ELSE <<>>
    IN  IF int = <<>> /\ frac = <<>> THEN NaN ELSE Decimal(SignOf(t), int, frac)

\* the digits of n, left-padded with zeros to width w
RECURSIVE PadDigits(_, _)
PadDigits(n, w) ==
    IF w = 0 THEN <<>> ELSE PadDigits(n \div 10, w - 1) \o <<Digits[(n % 10) + 1]>>

Abs(n) == IF n < 0 THEN -n ELSE n

\* String(n) for a finite number of ordinary magnitude (no exponent form)
NumberToString(n) ==
    LET a == Abs(n.m)
        int == NatToString(a \div Pow10(n.e))
        frac == IF n.e = 0 THEN <<>> ELSE <<".">> \o PadDigits(a % Pow10(n.e), n.e)
    IN  (IF n.m < 0 THEN <<"-">> ELSE <<>>) \o int \o frac

\* String(v)
JsString(v) ==
    CASE v.t = "string" -> v.s
      [] v.t = "number" -> NumberToString(v)
      [] v.t = "boolean" -> IF v.m = 1 THEN <<"t", "r", "u", "e">> ELSE <<"f", "a", "l", "s", "e">>
      [] v.t = "null" -> <<"n", "u", "l", "l">>
      [] v.t = "undefined" -> <<"u", "n", "d", "e", "f", "i", "n", "e", "d">>
      [] v.t = "NaN" -> <<"N", "a", "N">>

\* parseFloat(v): the argument is converted to a string first
ParseFloat(v) == ParseFloatString(JsString(v))

\* val !== null && val !== undefined && val !== ''
NonEmpty(v) == v # Null /\ v # Undefined /\ v # EmptyString

(***************************************************************************)
(* Dates.  A time value is [ok, day, ms, part]: ok is FALSE for NaN         *)
(* (Invalid Date), otherwise the instant is `ms` milliseconds and `part`   *)
(* (a number in [0, 1), zero for every parsed date) into day `day`, days   *)
(* counted from 1970-01-01 UTC.  The epoch milliseconds are                *)
(* day * MsPerDay + ms + part, kept apart to stay within TLC's integers.   *)
(***************************************************************************)
MsPerDay == 24 * 60 * 60 * 1000

NaNTime == [ok |-> FALSE, day |-> 0, ms |-> 0, part |-> Num(0, 0)]
Time(day, ms) == [ok |-> TRUE, day |-> day, ms |-> ms, part |-> Num(0, 0)]

\* a <= b on valid times
TimeLE(a, b) ==
    \/ a.day < b.day
    \/ a.day = b.day /\ a.ms < b.ms
    \/ a.day = b.day /\ a.ms = b.ms /\ NumLE(a.part, b.part)

\* the time value that is the finite number n of epoch milliseconds
TimeOfNumber(n) ==
    LET whole == n.m \div Pow10(n.e)
    IN  [ok |-> TRUE, day |-> whole \div MsPerDay, ms |-> whole % MsPerDay,
         part |-> Num(n.m - whole * Pow10(n.e), n.e)]

IsLeapYear(y) == (y % 4 = 0 /\ y % 100 # 0) \/ y % 400 = 0

DaysInMonth(y, m) ==
    IF m = 2 THEN (IF IsLeapYear(y) THEN 29 ELSE 28)
    ELSE IF m \in {4, 6, 9, 11} THEN 30 ELSE 31

\* the day number of the civil date y-m-d (proleptic Gregorian calendar)
DaysFromCivil(y, m, d) ==
    LET yy == IF m <= 2 THEN y - 1 ELSE y
        era == yy \div 400
        yoe == yy - era * 400
        mp == IF m > 2 THEN m - 3 ELSE m + 9
        doy == (153 * mp + 2) \div 5 + d - 1
        doe == yoe * 365 + yoe \div 4 - yoe \div 100 + doy
    IN  era * 146097 + doe - 719468

\* the civil date <<y, m, d>> of a day number
CivilFromDays(z) ==
    LET zz == z + 719468
        era == zz \div 146097
        doe == zz - era * 146097
        yoe == (doe - doe \div 1460 + doe \div 36524 - doe \div 146096) \div 365
        doy == doe - (365 * yoe + yoe \div 4 - yoe \div 100)
        mp == (5 * doy + 2) \div 153
        d == doy - (153 * mp + 2) \div 5 + 1
        m == IF mp < 10 THEN mp + 3 ELSE mp - 9
    IN  <<IF m <= 2 THEN yoe + era * 400 + 1 ELSE yoe + era * 400, m, d>>

\* The date-only forms of the ECMAScript date-time string format, YYYY, YYYY-MM and
\* YYYY-MM-DD, which every engine reads as UTC midnight.
IsoDateOnly(s) ==
    /\ Len(s) \in {4, 7, 10}
    /\ \A i \in 1..Len(s) : IF i \in {5, 8} THEN s[i] = "-" ELSE IsDigit(s[i])
    /\ Len(s) >= 7 => DigitsToNat(SubSeq(s, 6, 7)) \in 1..12
    /\ Len(s) = 10 =>
          DigitsToNat(SubSeq(s, 9, 10)) \in
              1..DaysInMonth(DigitsToNat(SubSeq(s, 1, 4)), DigitsToNat(SubSeq(s, 6, 7)))

IsoDateOnlyTime(s) ==
    Time(DaysFromCivil(DigitsToNat(SubSeq(s, 1, 4)),
                       IF Len(s) >= 7 THEN DigitsToNat(SubSeq(s, 6, 7)) ELSE 1,
                       IF Len(s) = 10 THEN DigitsToNat(SubSeq(s, 9, 10)) ELSE 1), 0)

MonthNames == << <<"j", "a", "n">>, <<"f", "e", "b">>, <<"m", "a", "r">>, <<"a", "p", "r">>,
                 <<"m", "a", "y">>, <<"j", "u", "n">>, <<"j", "u", "l">>, <<"a", "u", "g">>,
                 <<"s", "e", "p">>, <<"o", "c", "t">>, <<"n", "o", "v">>, <<"d", "e", "c">> >>

MonthOf(name) ==
    IF \E i \in 1..12 : MonthNames[i] = name
    THEN CHOOSE i \in 1..12 : MonthNames[i] = name
    ELSE 0

\* The form "Mon DD YYYY" (as in "Jun 15 2020"), which the engines' fallback
\* parsers all read, matching the month name in either case; a date without a
\* time zone is local time, and the model's zone is UTC.
MonthDayYear(s) ==
    /\ Len(s) = 11
    /\ s[4] = " " /\ s[7] = " "
    /\ AllDigits(SubSeq(s, 5, 6)) /\ AllDigits(SubSeq(s, 8, 11))
    /\ MonthOf(ToLowerCase(SubSeq(s, 1, 3))) # 0
    /\ DigitsToNat(SubSeq(s, 5, 6)) \in
          1..DaysInMonth(DigitsToNat(SubSeq(s, 8, 11)), MonthOf(ToLowerCase(SubSeq(s, 1, 3))))

MonthDayYearTime(s) ==
    Time(DaysFromCivil(DigitsToNat(SubSeq(s, 8, 11)), MonthOf(ToLowerCase(SubSeq(s, 1, 3))),
                       DigitsToNat(SubSeq(s, 5, 6))), 0)

HasDigit(s) == \E i \in 1..Len(s) : IsDigit(s[i])

\* Date.parse(s) / new Date(s) for a string s.  A string in neither form above
\* (one with white space around it included) is left to the engine's fallback
\* parser: one that holds no digit is NaN; for one that holds a digit the engine
\* decides, and `fallback` is its answer.
DateParseString(s, fallback) ==
    IF IsoDateOnly(s) THEN IsoDateOnlyTime(s)
    ELSE IF MonthDayYear(s) THEN MonthDayYearTime(s)
    ELSE IF HasDigit(s) THEN fallback
    ELSE NaNTime

\* new Date(v): a string is parsed, any other value is converted to a number of
\* epoch milliseconds (truncated toward zero)
DateOfValue(v, fallback) ==
    CASE v.t = "string" -> DateParseString(v.s, fallback)
      [] v.t = "number" ->
            LET tv == (IF v.m < 0 THEN -1 ELSE 1) * (Abs(v.m) \div Pow10(v.e))
            IN  Time(tv \div MsPerDay, tv % MsPerDay)
      [] v.t = "boolean" -> Time(0, v.m)
      [] v.t = "null" -> Time(0, 0)
      [] OTHER -> NaNTime

\* Date.parse(v): the argument is converted to a string first
DateParse(v, fallback) == DateParseString(JsString(v), fallback)

\* Date.prototype.toISOString, for the years 0 to 9999
ToISOString(time) ==
    LET c == CivilFromDays(time.day)
    IN  PadDigits(c[1], 4) \o <<"-">> \o PadDigits(c[2], 2) \o <<"-">> \o PadDigits(c[3], 2)
        \o <<"T">> \o PadDigits(time.ms \div 3600000, 2)
        \o <<":">> \o PadDigits((time.ms \div 60000) % 60, 2)
        \o <<":">> \o PadDigits((time.ms \div 1000) % 60, 2)
        \o <<".">> \o PadDigits(time.ms % 1000, 3) \o <<"Z">>

(***************************************************************************)
(* detectColumnType.                                                       *)
(***************************************************************************)
\* ['true', 'false', '1', '0', 'yes', 'no']
BooleanTokens ==
    { <<"t", "r", "u", "e">>, <<"f", "a", "l", "s", "e">>, <<"1">>, <<"0">>,
      <<"y", "e", "s">>, <<"n", "o">> }

\* const threshold = 0.8, as the fraction ThresholdNum / ThresholdDen
ThresholdNum == 8
ThresholdDen == 10

\* the integer share 0.9 of the numeric values, as IntegerShareNum / IntegerShareDen
IntegerShareNum == 9
IntegerShareDen == 10

\* ShareAtLeast on the share rounded to the nearest 1 / den
ShareRounded(count, total, num, den) ==
    (2 * count * den + total) \div (2 * total) >= num

\* count / total >= num / den for total > 0.  The source divides in floating point;
\* the quotient of two small counts compares with the literal 0.8 or 0.9 as the
\* exact fractions do (the division is correctly rounded and the literal is the
\* double nearest to the fraction).
ShareAtLeast(count, total, num, den) == count * den >= num * total

\* the bucket one value falls in, by the body of the for loop: the first of the
\* boolean, numeric and date tests that succeeds ends the iteration.  Every number
\* of the model is finite, so isFinite adds nothing to the isNaN test.
Bucket(value, fallback) ==
    LET stringValue == Trim(ToLowerCase(JsString(value)))
        numericValue == StringToNumber(StripSeparators(stringValue))
    IN  IF stringValue \in BooleanTokens THEN "boolean"
        ELSE IF /\ (ThousandsPattern(stringValue) \/ SimpleNumericPattern(stringValue))
                /\ ~IsNaN(numericValue)
             THEN (IF IsInteger(numericValue) THEN "integer" ELSE "numeric")
        ELSE IF DateParseString(stringValue, fallback).ok /\ Len(stringValue) > 4
             THEN "date"
        ELSE "none"

ZeroCounts == [numericCount |-> 0, integerCount |-> 0, dateCount |-> 0, booleanCount |-> 0]

\* the for loop over the values, from index i on
RECURSIVE CountLoop(_, _, _, _)
CountLoop(vals, i, counts, fallback) ==
    IF i > Len(vals) THEN counts
    ELSE LET b == Bucket(vals[i], fallback)
         IN  CountLoop(vals, i + 1,
                 CASE b = "boolean" -> [counts EXCEPT !.booleanCount = @ + 1]
                   [] b = "integer" -> [counts EXCEPT !.numericCount = @ + 1,
                                                      !.integerCount = @ + 1]
                   [] b = "numeric" -> [counts EXCEPT !.numericCount = @ + 1]
                   [] b = "date" -> [counts EXCEPT !.dateCount = @ + 1]
                   [] OTHER -> counts,
                 fallback)

\* TypeOfCounts with the numeric test ahead of the date test and > in place of >=
TypeOfCountsStrict(c, total) ==
    IF c.booleanCount * ThresholdDen > ThresholdNum * total THEN "boolean"
    ELSE IF c.numericCount * ThresholdDen > ThresholdNum * total
         THEN (IF c.integerCount * IntegerShareDen > IntegerShareNum * c.numericCount
               THEN "integer" ELSE "float")
    ELSE IF c.dateCount * ThresholdDen > ThresholdNum * total THEN "date"
    ELSE "string"

\* the decision on the counts
TypeOfCounts(c, total) ==
    IF ShareAtLeast(c.booleanCount, total, ThresholdNum, ThresholdDen) THEN "boolean"
    ELSE IF ShareAtLeast(c.dateCount, total, ThresholdNum, ThresholdDen) THEN "date"
    ELSE IF ShareAtLeast(c.numericCount, total, ThresholdNum, ThresholdDen)
         THEN (IF ShareAtLeast(c.integerCount, c.numericCount, IntegerShareNum, IntegerShareDen)
               THEN "integer" ELSE "float")
    ELSE "string"

DetectColumnType(vals, fallback) ==
    IF Len(vals) = 0 THEN "string"
    ELSE TypeOfCounts(CountLoop(vals, 1, ZeroCounts, fallback), Len(vals))

(***************************************************************************)
(* Rows.  An object is the list of its <<key, value>> entries in            *)
(* Object.keys order, the keys pairwise distinct.                          *)
(***************************************************************************)
Keys(row) == [i \in 1..Len(row) |-> row[i][1]]

HasKey(row, key) == \E i \in 1..Len(row) : row[i][1] = key

\* row[key]
Get(row, key) ==
    IF HasKey(row, key) THEN row[CHOOSE i \in 1..Len(row) : row[i][1] = key][2]
    ELSE Undefined

\* row[key] = val
Set(row, key, val) ==
    IF HasKey(row, key)
    THEN [i \in 1..Len(row) |-> IF row[i][1] = key THEN <<key, val>> ELSE row[i]]
    ELSE Append(row, <<key, val>>)

\* Array.from(new Set(s)): the first occurrence of each element, in order
RECURSIVE Unique(_)
Unique(s) ==
    IF s = <<>> THEN <<>>
    ELSE LET init == Unique(SubSeq(s, 1, Len(s) - 1))
             last == s[Len(s)]
         IN  IF last \in SeqToSet(init) THEN init ELSE Append(init, last)

\* array.slice(0, n)
Slice(s, n) == SubSeq(s, 1, IF Len(s) < n THEN Len(s) ELSE n)

(***************************************************************************)
(* analyzeColumn.  A column is [name, type, unique_values, has_sample_values, *)
(* sample_values, min, max]; an optional field that is not set is Undefined *)
(* (min, max) or flagged absent (sample_values).                           *)
(***************************************************************************)
SampleValuesLimit == 5

\* Math.min(...s), Math.max(...s) on a non-empty list of finite numbers
RECURSIVE MathMin(_)
MathMin(s) == IF Len(s) = 1 THEN s[1] ELSE NumMin(s[1], MathMin(Tail(s)))

RECURSIVE MathMax(_)
MathMax(s) == IF Len(s) = 1 THEN s[1] ELSE NumMax(s[1], MathMax(Tail(s)))

\* the same on a non-empty list of valid times (d.getTime())
RECURSIVE EarliestTime(_)
EarliestTime(s) ==
    IF Len(s) = 1 THEN s[1]
    ELSE LET r == EarliestTime(Tail(s)) IN IF TimeLE(s[1], r) THEN s[1] ELSE r

RECURSIVE LatestTime(_)
LatestTime(s) ==
    IF Len(s) = 1 THEN s[1]
    ELSE LET r == LatestTime(Tail(s)) IN IF TimeLE(s[1], r) THEN r ELSE s[1]

AnalyzeColumn(name, vals, fallback) ==
    IF Len(vals) = 0
    THEN [name |-> name, type |-> "string", unique_values |-> 0,
          has_sample_values |-> FALSE, sample_values |-> <<>>,
          min |-> Undefined, max |-> Undefined]
    ELSE
      LET uniqueValues == Unique(vals)
          nonEmptyValues == SelectSeq(vals, NonEmpty)
          type == DetectColumnType(nonEmptyValues, fallback)
          numericValues == SelectSeq([i \in 1..Len(nonEmptyValues) |-> ParseFloat(nonEmptyValues[i])],
                                     LAMBDA n : ~IsNaN(n))
          dateValues == SelectSeq([i \in 1..Len(nonEmptyValues) |->
                                       DateOfValue(nonEmptyValues[i], fallback)],
                                  LAMBDA d : d.ok)
          numeric == type \in {"integer", "float"} /\ Len(numericValues) > 0
          date == type = "date" /\ Len(dateValues) > 0
      IN  [name |-> name, type |-> type, unique_values |-> Len(uniqueValues),
           has_sample_values |-> TRUE,
           sample_values |-> Slice(uniqueValues, SampleValuesLimit),
           min |-> IF numeric THEN MathMin(numericValues)
                   ELSE IF date THEN Str(ToISOString(EarliestTime(dateValues)))
                   ELSE Undefined,
           max |-> IF numeric THEN MathMax(numericValues)
                   ELSE IF date THEN Str(ToISOString(LatestTime(dateValues)))
                   ELSE Undefined]

(***************************************************************************)
(* generateDatasetProfile.                                                 *)
(***************************************************************************)
SampleRowsLimit == 10

\* the value stored in a cleaned row for the raw value val (lines 167-191)
CleanValue(val) ==
    IF val = Null \/ val = Undefined THEN EmptyString
    ELSE IF val.t = "string"
    THEN LET trimmed == Trim(val.s)
         IN  IF ThousandsPattern(trimmed)
             THEN LET parsed == StringToNumber(StripSeparators(trimmed))
                  IN  IF ~IsNaN(parsed) THEN parsed ELSE Str(trimmed)
             ELSE IF SimpleNumericPattern(trimmed)
             THEN LET parsed == StringToNumber(trimmed)
                  IN  IF ~IsNaN(parsed) THEN parsed ELSE Str(trimmed)
             ELSE Str(trimmed)
    ELSE val

\* the body of data.map((row) => ...): newRow after the keys from index i on
RECURSIVE CleanRowFrom(_, _, _, _, _)
CleanRowFrom(row, keys, names, i, newRow) ==
    IF i > Len(keys) THEN newRow
    ELSE CleanRowFrom(row, keys, names, i + 1,
                      Set(newRow, names[i], CleanValue(Get(row, keys[i]))))

CleanRow(row, keys, names) == CleanRowFrom(row, keys, names, 1, <<>>)

\* SomeNonEmpty looking at the first row only
FirstNonEmpty(cleanedData, col) == NonEmpty(Get(cleanedData[1], col))

\* cleanedData.some((r) => r[col] !== null && r[col] !== undefined && r[col] !== '')
SomeNonEmpty(cleanedData, col) ==
    \E i \in 1..Len(cleanedData) : NonEmpty(Get(cleanedData[i], col))

\* the non-empty values of a column of the cleaned rows, in row order
ColumnData(cleanedData, columnName) ==
    SelectSeq([i \in 1..Len(cleanedData) |-> Get(cleanedData[i], columnName)], NonEmpty)

\* datasetName.replace(/\.[^/.]+$/, '')
StripExtension(name) ==
    IF \E i \in 1..(Len(name) - 1) :
          name[i] = "." /\ \A j \in (i + 1)..Len(name) : name[j] \notin {"/", "."}
    THEN SubSeq(name, 1,
             (CHOOSE i \in 1..(Len(name) - 1) :
                 name[i] = "." /\ \A j \in (i + 1)..Len(name) : name[j] \notin {"/", "."}) - 1)
    ELSE name

NoProfile ==
    [status |-> "none", error |-> "", dataset_name |-> <<>>, columns |-> <<>>,
     sample_rows |-> <<>>, rows |-> <<>>, total_rows |-> 0]

\* GenerateDatasetProfile with the guard `!data` alone: an empty list goes on to
\* Object.keys(undefined), which throws a TypeError
GenerateNoLengthGuard(d, datasetName, fallback) ==
    IF ~d.present
    THEN [NoProfile EXCEPT !.status = "thrown", !.error = "Dataset is empty or invalid"]
    ELSE [NoProfile EXCEPT !.status = "thrown", !.error = "TypeError"]

\* The argument `d` is [present, rows]: present is FALSE for a null or undefined
\* row list.  The result is the returned profile (status "ok") or the Error
\* thrown (status "thrown").
GenerateDatasetProfile(d, datasetName, fallback) ==
    IF ~d.present \/ Len(d.rows) = 0
    THEN [NoProfile EXCEPT !.status = "thrown", !.error = "Dataset is empty or invalid"]
    ELSE
      LET firstRow == d.rows[1]
          keys == Keys(firstRow)
          names == SanitizeAll(keys)
          cleanedData == [i \in 1..Len(d.rows) |-> CleanRow(d.rows[i], keys, names)]
          nonEmptyColumns == SelectSeq(names, LAMBDA col : SomeNonEmpty(cleanedData, col))
          columns == [i \in 1..Len(nonEmptyColumns) |->
                        AnalyzeColumn(nonEmptyColumns[i],
                                      ColumnData(cleanedData, nonEmptyColumns[i]), fallback)]
      IN  [status |-> "ok", error |-> "",
           dataset_name |-> StripExtension(datasetName),
           columns |-> columns,
           sample_rows |-> Slice(cleanedData, SampleRowsLimit),
           rows |-> cleanedData,
           total_rows |-> Len(cleanedData)]

(***************************************************************************)
(* applyFilters.  A filter is [column, hasValues, values, min, max]:       *)
(* hasValues is FALSE when filter.values is absent, and min, max are       *)
(* Undefined when not set.                                                 *)
(***************************************************************************)
\* typeof minVal === 'number' ? minVal : parseFloat(minVal)
BoundNumber(bound) == IF bound.t = "number" THEN bound ELSE ParseFloat(bound)

\* Number(v) as a time value, for a bound that is not a string
NumberTime(v) ==
    CASE v.t = "number" -> TimeOfNumber(v)
      [] v.t = "boolean" -> Time(0, v.m)
      [] v.t = "null" -> Time(0, 0)
      [] OTHER -> NaNTime

\* typeof minVal === 'string' ? Date.parse(minVal) : Number(minVal)
BoundTime(bound, fallback) ==
    IF bound.t = "string" THEN DateParseString(bound.s, fallback) ELSE NumberTime(bound)

\* FilterPasses with the inclusion test made whenever filter.values is present
FilterPassesEmptyExcludes(row, filter, fallback) ==
    /\ filter.hasValues
    /\ Get(row, filter.column) \in {filter.values[i] : i \in 1..Len(filter.values)}

\* FilterPasses with the inclusion test made on the values converted to strings
\* (a loose comparison in place of Array.prototype.includes)
FilterPassesLoose(row, filter, fallback) ==
    IF filter.hasValues /\ Len(filter.values) > 0
    THEN \E i \in 1..Len(filter.values) :
            JsString(filter.values[i]) = JsString(Get(row, filter.column))
    ELSE IF filter.min # Undefined /\ filter.max # Undefined
    THEN LET rawValue == Get(row, filter.column)
             num == ParseFloat(rawValue)
             minNum == BoundNumber(filter.min)
             maxNum == BoundNumber(filter.max)
             valTime == DateParse(rawValue, fallback)
             minTime == BoundTime(filter.min, fallback)
             maxTime == BoundTime(filter.max, fallback)
         IN  IF ~IsNaN(num) /\ ~IsNaN(minNum) /\ ~IsNaN(maxNum)
             THEN NumLE(minNum, num) /\ NumLE(num, maxNum)
             ELSE IF valTime.ok /\ minTime.ok /\ maxTime.ok
             THEN TimeLE(minTime, valTime) /\ TimeLE(valTime, maxTime)
             ELSE TRUE
    ELSE TRUE

\* FilterPasses with `num < maxNum` in place of `num <= maxNum`
FilterPassesBelowMax(row, filter, fallback) ==
    IF filter.hasValues /\ Len(filter.values) > 0
    THEN Get(row, filter.column) \in SeqToSet(filter.values)
    ELSE IF filter.min # Undefined /\ filter.max # Undefined
    THEN LET rawValue == Get(row, filter.column)
             num == ParseFloat(rawValue)
             minNum == BoundNumber(filter.min)
             maxNum == BoundNumber(filter.max)
             valTime == DateParse(rawValue, fallback)
             minTime == BoundTime(filter.min, fallback)
             maxTime == BoundTime(filter.max, fallback)
         IN  IF ~IsNaN(num) /\ ~IsNaN(minNum) /\ ~IsNaN(maxNum)
             THEN NumLE(minNum, num) /\ NumLE(num, maxNum) /\ num # maxNum
             ELSE IF valTime.ok /\ minTime.ok /\ maxTime.ok
             THEN TimeLE(minTime, valTime) /\ TimeLE(valTime, maxTime)
             ELSE TRUE
    ELSE TRUE

\* FilterPasses with a range filter that rejects the row it cannot compare
FilterPassesRejects(row, filter, fallback) ==
    IF filter.hasValues /\ Len(filter.values) > 0
    THEN Get(row, filter.column) \in SeqToSet(filter.values)
    ELSE IF filter.min # Undefined /\ filter.max # Undefined
    THEN LET rawValue == Get(row, filter.column)
             num == ParseFloat(rawValue)
             minNum == BoundNumber(filter.min)
             maxNum == BoundNumber(filter.max)
             valTime == DateParse(rawValue, fallback)
             minTime == BoundTime(filter.min, fallback)
             maxTime == BoundTime(filter.max, fallback)
         IN  IF ~IsNaN(num) /\ ~IsNaN(minNum) /\ ~IsNaN(maxNum)
             THEN NumLE(minNum, num) /\ NumLE(num, maxNum)
             ELSE IF valTime.ok /\ minTime.ok /\ maxTime.ok
             THEN TimeLE(minTime, valTime) /\ TimeLE(valTime, maxTime)
             ELSE FALSE
    ELSE TRUE

\* the callback of filters.every: whether the row passes one filter
FilterPasses(row, filter, fallback) ==
    LET rawValue == Get(row, filter.column)
        num == ParseFloat(rawValue)
        minNum == BoundNumber(filter.min)
        maxNum == BoundNumber(filter.max)
        bothNumeric == ~IsNaN(num) /\ ~IsNaN(minNum) /\ ~IsNaN(maxNum)
        valTime == DateParse(rawValue, fallback)
        minTime == BoundTime(filter.min, fallback)
        maxTime == BoundTime(filter.max, fallback)
    IN  IF filter.hasValues /\ Len(filter.values) > 0
        THEN rawValue \in SeqToSet(filter.values)
        ELSE IF filter.min # Undefined /\ filter.max # Undefined
        THEN IF bothNumeric
             THEN NumLE(minNum, num) /\ NumLE(num, maxNum)
             ELSE IF valTime.ok /\ minTime.ok /\ maxTime.ok
             THEN TimeLE(minTime, valTime) /\ TimeLE(valTime, maxTime)
             ELSE TRUE
        ELSE TRUE

\* ApplyFilters with filters.some in place of filters.every
ApplyFiltersSome(rows, filters, fallback) ==
    SelectSeq(rows, LAMBDA row :
        \E j \in 1..Len(filters) : FilterPasses(row, filters[j], fallback))

\* ApplyFilters testing the first filter only
ApplyFiltersFirst(rows, filters, fallback) ==
    SelectSeq(rows, LAMBDA row :
        Len(filters) > 0 => FilterPasses(row, filters[1], fallback))

\* data.filter((row) => filters.every((filter) => ...))
ApplyFilters(rows, filters, fallback) ==
    SelectSeq(rows, LAMBDA row :
        \A j \in 1..Len(filters) : FilterPasses(row, filters[j], fallback))

(***************************************************************************)
(* generateColumnStats.  The numbers of a list are brought to a common     *)
(* power of ten, so that sums and squares are computed on integers and the *)
(* mean and the variance are exact fractions.                              *)
(***************************************************************************)
\* the greatest exponent e of the numbers of a list
RECURSIVE MaxExp(_)
MaxExp(s) ==
    IF s = <<>> THEN 0
    ELSE LET r == MaxExp(Tail(s)) IN IF Head(s).e > r THEN Head(s).e ELSE r

\* the integer n * 10^E of a number n with n.e <= E
Scaled(n, E) == n.m * Pow10(E - n.e)

\* values.reduce((sum, val) => sum + val, 0), times 10^E
RECURSIVE SumScaled(_, _)
SumScaled(s, E) == IF s = <<>> THEN 0 ELSE Scaled(Head(s), E) + SumScaled(Tail(s), E)

\* the sum of the squares of the values, times 10^(2E)
RECURSIVE SumSquaresScaled(_, _)
SumSquaresScaled(s, E) ==
    IF s = <<>> THEN 0
    ELSE Scaled(Head(s), E) * Scaled(Head(s), E) + SumSquaresScaled(Tail(s), E)

\* n put into an ascending list at its place, after the numbers equal to it
RECURSIVE InsertSorted(_, _)
InsertSorted(n, s) ==
    IF s = <<>> THEN <<n>>
    ELSE IF NumLE(Head(s), n) THEN <<Head(s)>> \o InsertSorted(n, Tail(s))
    ELSE <<n>> \o s

\* values.sort((a, b) => a - b)
RECURSIVE SortAscending(_)
SortAscending(s) ==
    IF s = <<>> THEN <<>>
    ELSE InsertSorted(s[Len(s)], SortAscending(SubSeq(s, 1, Len(s) - 1)))

\* MedianIndex taking the lower middle of an even number of values
MedianIndexLower(n) == (n - 1) \div 2

\* Math.floor(sorted.length / 2), a zero-based index
MedianIndex(n) == n \div 2

\* Math.round(x * 100) / 100 for the fraction x = p / q, q > 0: Math.round is
\* floor(y + 1/2).  The source rounds the double nearest to x * 100, which gives
\* the same integer unless x * 100 lies within a rounding error of a half.
Round2(p, q) == Num((200 * p + q) \div (2 * q), 2)

\* (r + 1/2)^2 > bound / (4 * n^2), on integers
RootAbove(r, n, bound) == (2 * r + 1) * (2 * r + 1) * n * n > bound

\* some r from h on with RootAbove
RECURSIVE RootLimit(_, _, _)
RootLimit(h, n, bound) ==
    IF RootAbove(h, n, bound) THEN h ELSE RootLimit(2 * h + 1, n, bound)

\* the least r of lo..hi with RootAbove, hi being one
RECURSIVE LeastRootAbove(_, _, _, _)
LeastRootAbove(lo, hi, n, bound) ==
    IF lo = hi THEN lo
    ELSE LET mid == (lo + hi) \div 2
         IN  IF RootAbove(mid, n, bound) THEN LeastRootAbove(lo, mid, n, bound)
             ELSE LeastRootAbove(mid + 1, hi, n, bound)

\* Math.round(Math.sqrt(variance) * 100) / 100 for the variance p / (n^2 * 10^(2E)),
\* E <= 2: the integer r = floor(100 * sqrt(variance) + 1/2) is the least r with
\* (r + 1/2)^2 > 10000 * variance.  Math.sqrt is correctly rounded, so the double
\* rounds to the same r unless 100 * sqrt(variance) lies within a rounding error
\* of a half.
RoundedRoot(p, n, E) ==
    LET bound == 4 * Pow10(4 - 2 * E) * p
    IN  Num(LeastRootAbove(0, RootLimit(0, n, bound), n, bound), 2)

NoStats ==
    [count |-> 0, mean |-> Num(0, 0), median |-> Num(0, 0), std |-> Num(0, 0),
     min |-> Num(0, 0), max |-> Num(0, 0)]

GenerateColumnStats(rows, column) ==
    LET vals == SelectSeq([i \in 1..Len(rows) |-> ParseFloat(Get(rows[i], column))],
                          LAMBDA v : ~IsNaN(v))
    IN  IF Len(vals) = 0 THEN NoStats
        ELSE
          LET sorted == SortAscending(vals)
              n == Len(vals)
              E == MaxExp(vals)
              sum == SumScaled(sorted, E)
              median == sorted[MedianIndex(Len(sorted)) + 1]
              \* sum of (val - mean)^2 over n, as (n * sum of val^2 - sum^2) / n^2
              squares == n * SumSquaresScaled(sorted, E) - sum * sum
          IN  [count |-> n,
               mean |-> Round2(sum, n * Pow10(E)),
               median |-> Round2(median.m, Pow10(median.e)),
               std |-> RoundedRoot(squares, n, E),
               min |-> MathMin(vals),
               max |-> MathMax(vals)]

(***************************************************************************)
(* computeLocalAnalytics (src/utils/analytics).  An insight line is the    *)
(* string the source builds, character by character.  Sums, means and the  *)
(* correlation are exact fractions; where the source rounds a double, the  *)
(* model rounds the fraction, which gives the same digits unless the       *)
(* fraction lies within a rounding error of a rounding boundary.           *)
(***************************************************************************)
\* Number(v)
ToNumber(v) ==
    CASE v.t = "number" -> v
      [] v.t = "string" -> StringToNumber(v.s)
      [] v.t = "boolean" -> Num(v.m, 0)
      [] v.t = "null" -> Num(0, 0)
      [] OTHER -> NaN

\* a + b on finite numbers
NumAdd(a, b) ==
    LET E == IF a.e > b.e THEN a.e ELSE b.e
    IN  Num(Scaled(a, E) + Scaled(b, E), E)

\* /(19|20)\d{2}/ matches s at position i
YearAt(s, i) ==
    /\ i + 3 <= Len(s)
    /\ SubSeq(s, i, i + 1) \in {<<"1", "9">>, <<"2", "0">>}
    /\ IsDigit(s[i + 2]) /\ IsDigit(s[i + 3])

\* parseYear(val): null, or the year as [ok, year]
NoYear == [ok |-> FALSE, year |-> 0]

ParseYear(val, fallback) ==
    IF val = Null \/ val = Undefined THEN NoYear
    ELSE LET s == JsString(val)
             d == DateParseString(s, fallback)
         IN  IF \E i \in 1..Len(s) : YearAt(s, i)
             THEN LET i == CHOOSE i \in 1..Len(s) :
                               YearAt(s, i) /\ \A j \in 1..(i - 1) : ~YearAt(s, j)
                  IN  [ok |-> TRUE, year |-> DigitsToNat(SubSeq(s, i, i + 3))]
             ELSE IF d.ok THEN [ok |-> TRUE, year |-> CivilFromDays(d.day)[1]]
             ELSE NoYear

\* s holds the characters of p somewhere
Includes(s, p) == \E i \in 1..(Len(s) - Len(p) + 1) : SubSeq(s, i, i + Len(p) - 1) = p

\* /year|date|time|occurrence/i.test(name)
DateLikeName(name) ==
    \E p \in { <<"y", "e", "a", "r">>, <<"d", "a", "t", "e">>, <<"t", "i", "m", "e">>,
               <<"o", "c", "c", "u", "r", "r", "e", "n", "c", "e">> } :
        Includes(ToLowerCase(name), p)

\* the names of the columns of the profile that satisfy the test of the filter
NumericCols(columns) ==
    LET c == SelectSeq(columns, LAMBDA c : c.type \in {"integer", "float"})
    IN  [i \in 1..Len(c) |-> c[i].name]

CatCols(columns) ==
    LET c == SelectSeq(columns, LAMBDA c : c.type = "string")
    IN  [i \in 1..Len(c) |-> c[i].name]

DateCols(columns) ==
    LET c == SelectSeq(columns, LAMBDA c : c.type = "date" \/ DateLikeName(c.name))
    IN  [i \in 1..Len(c) |-> c[i].name]

\* A Map is the list of its <<key, value>> entries in insertion order.
\* (map.get(key) || 0) + v, stored under key
MapAdd(map, key, v) ==
    Set(map, key, NumAdd(IF HasKey(map, key) THEN Get(map, key) ELSE Num(0, 0), v))

\* rows.forEach of the YoY section, from row i on
RECURSIVE PerYear(_, _, _, _, _, _)
PerYear(rows, dKey, nKey, i, map, fallback) ==
    IF i > Len(rows) THEN map
    ELSE LET y == ParseYear(Get(rows[i], dKey), fallback)
             v == ToNumber(Get(rows[i], nKey))
         IN  PerYear(rows, dKey, nKey, i + 1,
                     IF y.ok /\ ~IsNaN(v) THEN MapAdd(map, y.year, v) ELSE map,
                     fallback)

\* the greatest number of a non-empty set
MaxOf(S) == CHOOSE x \in S : \A y \in S : y <= x

\* YoyPercent dividing by prevVal itself
YoyPercentSigned(latestVal, prevVal) ==
    LET E == IF latestVal.e > prevVal.e THEN latestVal.e ELSE prevVal.e
        l == Scaled(latestVal, E)
        p == Scaled(prevVal, E)
    IN  IF p > 0 THEN Num((2000 * (l - p) + p) \div (2 * p), 1)
        ELSE Num((2000 * (p - l) - p) \div (2 * (-p)), 1)

\* Math.round(yoy * 10) / 10 for yoy = ((latestVal - prevVal) / Math.abs(prevVal)) * 100,
\* prevVal not 0
YoyPercent(latestVal, prevVal) ==
    LET E == IF latestVal.e > prevVal.e THEN latestVal.e ELSE prevVal.e
        l == Scaled(latestVal, E)
        p == Scaled(prevVal, E)
    IN  Num((2000 * (l - p) + Abs(p)) \div (2 * Abs(p)), 1)

\* `YoY change of ${nKey} from ${prev} to ${latest}: ${yoy >= 0 ? '+' : ''}${...}%`
YoyLine(nKey, prev, latest, latestVal, prevVal) ==
    <<"Y", "o", "Y", " ", "c", "h", "a", "n", "g", "e", " ", "o", "f", " ">> \o nKey \o <<" ", "f", "r", "o", "m", " ">> \o NatToString(prev)
    \o <<" ", "t", "o", " ">> \o NatToString(latest) \o <<":", " ">>
    \o (IF NumLE(prevVal, latestVal) THEN <<"+">> ELSE <<>>)
    \o NumberToString(YoyPercent(latestVal, prevVal)) \o <<"%">>

\* section 1: the lines pushed by the YoY trend
YoyLines(columns, rows, fallback) ==
    IF Len(DateCols(columns)) > 0 /\ Len(NumericCols(columns)) > 0
    THEN LET dKey == DateCols(columns)[1]
             nKey == NumericCols(columns)[1]
             perYear == PerYear(rows, dKey, nKey, 1, <<>>, fallback)
             years == {perYear[i][1] : i \in 1..Len(perYear)}
             latest == MaxOf(years)
             prev == MaxOf(years \ {latest})
             latestVal == Get(perYear, latest)
             prevVal == Get(perYear, prev)
         IN  IF Cardinality(years) >= 2 /\ prevVal # Num(0, 0)
             THEN <<YoyLine(nKey, prev, latest, latestVal, prevVal)>>
             ELSE <<>>
    ELSE <<>>

\* String(r[cKey] ?? '').trim()
CategoryKey(v) == IF v = Null \/ v = Undefined THEN <<>> ELSE Trim(JsString(v))

\* rows.forEach of the top-category section, from row i on: [totals, grand]
RECURSIVE CategoryTotals(_, _, _, _, _)
CategoryTotals(rows, cKey, nKey, i, acc) ==
    IF i > Len(rows) THEN acc
    ELSE LET k == CategoryKey(Get(rows[i], cKey))
             v == ToNumber(Get(rows[i], nKey))
         IN  CategoryTotals(rows, cKey, nKey, i + 1,
                 IF k # <<>> /\ ~IsNaN(v)
                 THEN [totals |-> MapAdd(acc.totals, k, v), grand |-> NumAdd(acc.grand, v)]
                 ELSE acc)

\* an entry put into a list in descending order of total, after the entries whose
\* total is not smaller (the sort is stable)
RECURSIVE InsertDescending(_, _)
InsertDescending(entry, s) ==
    IF s = <<>> THEN <<entry>>
    ELSE IF NumLE(entry[2], Head(s)[2]) THEN <<Head(s)>> \o InsertDescending(entry, Tail(s))
    ELSE <<entry>> \o s

\* SortDescending keeping the order of insertion
SortUnsorted(entries) == entries

\* Array.from(totals.entries()).sort((a, b) => b[1] - a[1])
RECURSIVE SortDescending(_)
SortDescending(entries) ==
    IF entries = <<>> THEN <<>>
    ELSE InsertDescending(entries[Len(entries)],
                          SortDescending(SubSeq(entries, 1, Len(entries) - 1)))

\* Math.round((v / grand) * 100), grand > 0
Percent(v, grand) ==
    LET E == IF v.e > grand.e THEN v.e ELSE grand.e
        g == Scaled(grand, E)
    IN  (200 * Scaled(v, E) + g) \div (2 * g)

\* a whole number as String prints it
IntToString(n) == IF n < 0 THEN <<"-">> \o NatToString(-n) ELSE NatToString(n)

\* parts.join(separator)
RECURSIVE Join(_, _)
Join(parts, separator) ==
    IF parts = <<>> THEN <<>>
    ELSE IF Len(parts) = 1 THEN parts[1]
    ELSE parts[1] \o separator \o Join(Tail(parts), separator)

TopLimit == 3

\* section 2: the lines pushed by the top-category contributions
TopLines(columns, rows) ==
    IF Len(CatCols(columns)) > 0 /\ Len(NumericCols(columns)) > 0
    THEN LET cKey == CatCols(columns)[1]
             nKey == NumericCols(columns)[1]
             acc == CategoryTotals(rows, cKey, nKey, 1,
                                   [totals |-> <<>>, grand |-> Num(0, 0)])
             top == Slice(SortDescending(acc.totals), TopLimit)
             parts == [i \in 1..Len(top) |->
                         top[i][1] \o <<" ", "(">>
                         \o IntToString(Percent(top[i][2], acc.grand)) \o <<"%", ")">>]
         IN  IF acc.grand.m > 0 /\ Len(top) > 0
             THEN <<<<"T", "o", "p", " ">> \o cKey \o <<" ", "b", "y", " ">> \o nKey \o <<":", " ">>
                    \o Join(parts, <<",", " ">>)>>
             ELSE <<>>
    ELSE <<>>

\* rows.map((r) => Number(r[key])).filter((v) => !isNaN(v))
NumbersOf(rows, key) ==
    SelectSeq([i \in 1..Len(rows) |-> ToNumber(Get(rows[i], key))], LAMBDA v : ~IsNaN(v))

OutlierMinCount == 5

\* section 3: the lines pushed by the outlier test on the first numeric column.
\* With n values of sum S and sum of squares Q (scaled to integers), the variance
\* is W / n^2 for W = n * Q - S^2, and |z| > 2.5 is 4 * (n * v - S)^2 > 25 * W.
OutlierLines(columns, rows) ==
    IF Len(NumericCols(columns)) > 0
    THEN LET nKey == NumericCols(columns)[1]
             vals == NumbersOf(rows, nKey)
             n == Len(vals)
             E == MaxExp(vals)
             S == SumScaled(vals, E)
             W == n * SumSquaresScaled(vals, E) - S * S
             outliers == Cardinality({i \in 1..n :
                             4 * (n * Scaled(vals[i], E) - S) * (n * Scaled(vals[i], E) - S)
                                 > 25 * W})
         IN  IF n > OutlierMinCount /\ W > 0
             THEN IF outliers > 0
                  THEN <<<<"D", "e", "t", "e", "c", "t", "e", "d", " ">> \o NatToString(outliers)
                         \o <<" ", "p", "o", "t", "e", "n", "t", "i", "a", "l", " ", "o", "u", "t", "l", "i",
          "e", "r", "s", " ", "i", "n", " ">> \o nKey \o <<" ", "(", "|", "z", "|", " ", ">", " ", "2", ".", "5", ")", ".">>>>
                  ELSE <<<<"N", "o", " ", "s", "t", "r", "o", "n", "g", " ", "o", "u", "t", "l", "i", "e",
          "r", "s", " ", "i", "n", " ">> \o nKey \o <<" ", "(", "s", "t", "a", "b", "l", "e", " ", "d", "i", "s", "t", "r", "i", "b",
          "u", "t", "i", "o", "n", ")", ".">>>>
             ELSE <<>>
    ELSE <<>>

\* the rows.forEach of the correlation section: the indices of the rows pushed to
\* aVals and bVals
CoPresent(rows, aKey, bKey) ==
    SelectSeq([i \in 1..Len(rows) |-> i],
              LAMBDA i : /\ ~IsNaN(ToNumber(Get(rows[i], aKey)))
                         /\ ~IsNaN(ToNumber(Get(rows[i], bKey))))

\* the sum of x[i] * y[i]
RECURSIVE SumProducts(_, _)
SumProducts(x, y) ==
    IF x = <<>> THEN 0 ELSE Head(x) * Head(y) + SumProducts(Tail(x), Tail(y))

RECURSIVE SumInts(_)
SumInts(x) == IF x = <<>> THEN 0 ELSE Head(x) + SumInts(Tail(x))

\* pearson(x, y) on two lists of n >= 1 integers, as the fraction it is the root
\* of: with N = n * sum(xy) - sum(x) * sum(y) and Dx, Dy alike, num is N / n, denx
\* is Dx / n, deny is Dy / n, and r = N / sqrt(Dx * Dy), or 0 when den is 0.  The
\* result is [sign, p, q]: r = sign * sqrt(p / q), and q = 1, p = 0 for r = 0.
Pearson(x, y) ==
    LET n == Len(x)
        N == n * SumProducts(x, y) - SumInts(x) * SumInts(y)
        Dx == n * SumProducts(x, x) - SumInts(x) * SumInts(x)
        Dy == n * SumProducts(y, y) - SumInts(y) * SumInts(y)
    IN  IF Dx * Dy = 0 \/ N = 0 THEN [sign |-> 1, p |-> 0, q |-> 1]
        ELSE [sign |-> IF N < 0 THEN -1 ELSE 1, p |-> N * N, q |-> Dx * Dy]

StrongNum == 6
StrongDen == 10

\* Math.abs(r) >= 0.6
Strong(r) == StrongDen * StrongDen * r.p >= StrongNum * StrongNum * r.q

\* floor(40000 * p / q), in two steps that stay within the integers
Scaled40000(r) ==
    200 * ((200 * r.p) \div r.q) + (200 * ((200 * r.p) % r.q)) \div r.q

\* 40000 * p / q is a whole number
Exact40000(r) == (200 * ((200 * r.p) % r.q)) % r.q = 0

\* Math.round(r * 100), which is floor(100 * r + 1/2): for r >= 0 the least k with
\* (2k + 1)^2 > 40000 * p / q, for r < 0 minus the least k with
\* (2k + 1)^2 >= 40000 * p / q; |r| <= 1, so k is at most 100
RoundedHundredths(r) ==
    LET t == Scaled40000(r)
    IN  IF r.sign > 0
        THEN Cardinality({k \in 0..100 : (2 * k + 1) * (2 * k + 1) <= t})
        ELSE -Cardinality({k \in 0..100 :
                  (2 * k + 1) * (2 * k + 1) < (IF Exact40000(r) THEN t ELSE t + 1)})

\* `${aKey} vs ${bKey} (r=${Math.round(r * 100) / 100})`
PairText(aKey, bKey, r) ==
    aKey \o <<" ", "v", "s", " ">> \o bKey \o <<" ", "(", "r", "=">>
    \o NumberToString(Num(RoundedHundredths(r), 2)) \o <<")">>

MinCoPresent == 5

\* the body of the two for loops for the columns i < j: the texts pushed to pairs
PairOf(numericCols, rows, i, j) ==
    LET aKey == numericCols[i]
        bKey == numericCols[j]
        idx == CoPresent(rows, aKey, bKey)
        aNums == [k \in 1..Len(idx) |-> ToNumber(Get(rows[idx[k]], aKey))]
        bNums == [k \in 1..Len(idx) |-> ToNumber(Get(rows[idx[k]], bKey))]
        aVals == [k \in 1..Len(idx) |-> Scaled(aNums[k], MaxExp(aNums))]
        bVals == [k \in 1..Len(idx) |-> Scaled(bNums[k], MaxExp(bNums))]
        r == Pearson(aVals, bVals)
    IN  IF Len(idx) >= MinCoPresent /\ Strong(r)
        THEN <<PairText(aKey, bKey, r)>>
        ELSE <<>>

\* the for loops from the columns i, j on, in the order i ascending, then j
RECURSIVE PairsFrom(_, _, _, _)
PairsFrom(numericCols, rows, i, j) ==
    IF i > Len(numericCols) THEN <<>>
    ELSE IF j > Len(numericCols) THEN PairsFrom(numericCols, rows, i + 1, i + 2)
    ELSE PairOf(numericCols, rows, i, j) \o PairsFrom(numericCols, rows, i, j + 1)

PairLimit == 3

\* section 4: the lines pushed by the correlations
CorrelationLines(columns, rows) ==
    IF Len(NumericCols(columns)) >= 2
    THEN LET pairs == PairsFrom(NumericCols(columns), rows, 1, 2)
         IN  IF Len(pairs) > 0
             THEN <<<<"S", "t", "r", "o", "n", "g", " ", "c", "o", "r", "r", "e", "l", "a", "t", "i",
          "o", "n", "s", ":", " ">> \o Join(Slice(pairs, PairLimit), <<";", " ">>)>>
             ELSE <<>>
    ELSE <<>>

\* computeLocalAnalytics(profile, rows).lines
ComputeLocalAnalytics(columns, rows, fallback) ==
    IF Len(rows) = 0 THEN <<>>
    ELSE YoyLines(columns, rows, fallback) \o TopLines(columns, rows)
         \o OutlierLines(columns, rows) \o CorrelationLines(columns, rows)

(***************************************************************************)
(* Double-precision arithmetic.  A JavaScript number is an IEEE 754 double; *)
(* +, -, *, / and Math.sqrt return the double nearest to the exact result,  *)
(* ties to the even significand.  A double is [sign, mant, exp] with value  *)
(* sign * mant * 2^exp, where mant is 0 or has exactly 53 bits and is kept  *)
(* as a list of limbs, least significant first.  The numbers of the model   *)
(* are far from the overflow and underflow thresholds, which are left out,  *)
(* and -0 is kept as 0 (the code tells them apart nowhere).  An operator    *)
(* binds an argument it uses more than once as the element of a singleton, *)
(* so that the argument is evaluated once.                                 *)
(***************************************************************************)
LimbBits == 3 * 5
LimbBase == 2 ^ LimbBits
SignificandBits == 52 + 1      \* 52 stored bits and the leading 1

\* a natural number as limbs, without leading zero limbs
RECURSIVE BigNorm(_)
BigNorm(a) ==
    CHOOSE r \in {IF x # <<>> /\ x[Len(x)] = 0 THEN BigNorm(SubSeq(x, 1, Len(x) - 1)) ELSE x :
                     x \in {a}} : TRUE

RECURSIVE BigOfNat(_)
BigOfNat(n) == IF n = 0 THEN <<>> ELSE <<n % LimbBase>> \o BigOfNat(n \div LimbBase)

Limb(a, i) == IF i <= Len(a) THEN a[i] ELSE 0

RECURSIVE BigAddFrom(_, _, _, _)
BigAddFrom(a, b, i, carry) ==
    IF i > Len(a) /\ i > Len(b)
    THEN IF carry = 0 THEN <<>> ELSE <<carry>>
    ELSE LET t == Limb(a, i) + Limb(b, i) + carry
         IN  <<t % LimbBase>> \o BigAddFrom(a, b, i + 1, t \div LimbBase)

BigAdd(a, b) == CHOOSE r \in {BigNorm(BigAddFrom(x, y, 1, 0)) : x \in {a}, y \in {b}} : TRUE

\* a - b, for a >= b
RECURSIVE BigSubFrom(_, _, _, _)
BigSubFrom(a, b, i, borrow) ==
    IF i > Len(a) THEN <<>>
    ELSE LET t == Limb(a, i) - Limb(b, i) - borrow
         IN  <<(t + LimbBase) % LimbBase>> \o BigSubFrom(a, b, i + 1, IF t < 0 THEN 1 ELSE 0)

BigSub(a, b) == CHOOSE r \in {BigNorm(BigSubFrom(x, y, 1, 0)) : x \in {a}, y \in {b}} : TRUE

\* -1, 0 or 1 as a is less than, equal to or greater than b
RECURSIVE BigCmpFrom(_, _, _)
BigCmpFrom(a, b, i) ==
    IF i = 0 THEN 0
    ELSE IF a[i] < b[i] THEN -1
    ELSE IF a[i] > b[i] THEN 1
    ELSE BigCmpFrom(a, b, i - 1)

BigCmp(a, b) ==
    CHOOSE r \in {IF Len(x) < Len(y) THEN -1
                  ELSE IF Len(x) > Len(y) THEN 1
                  ELSE BigCmpFrom(x, y, Len(x)) : x \in {a}, y \in {b}} : TRUE

\* a * k, for a limb k
RECURSIVE BigMulLimbFrom(_, _, _, _)
BigMulLimbFrom(a, k, i, carry) ==
    IF i > Len(a)
    THEN IF carry = 0 THEN <<>> ELSE <<carry>>
    ELSE LET t == a[i] * k + carry
         IN  <<t % LimbBase>> \o BigMulLimbFrom(a, k, i + 1, t \div LimbBase)

BigMulLimb(a, k) ==
    CHOOSE r \in {IF n = 0 THEN <<>> ELSE BigMulLimbFrom(x, n, 1, 0) : x \in {a}, n \in {k}} : TRUE

ZeroLimbs(n) == [i \in 1..n |-> 0]

RECURSIVE BigMulFrom(_, _, _)
BigMulFrom(a, b, i) ==
    IF i > Len(b) THEN <<>>
    ELSE BigAdd(ZeroLimbs(i - 1) \o BigMulLimb(a, b[i]), BigMulFrom(a, b, i + 1))

BigMul(a, b) == CHOOSE r \in {BigNorm(BigMulFrom(x, y, 1)) : x \in {a}, y \in {b}} : TRUE

\* a * 2^n
BigShl(a, n) ==
    CHOOSE r \in {IF x = <<>> THEN <<>>
                  ELSE ZeroLimbs(k \div LimbBits) \o BigMulLimb(x, 2 ^ (k % LimbBits)) :
                     x \in {a}, k \in {n}} : TRUE

\* the limbs i..1 of a divided by the limb k, rem carried in from above
RECURSIVE BigDivLimbFrom(_, _, _, _)
BigDivLimbFrom(a, k, i, rem) ==
    IF i = 0 THEN <<>>
    ELSE LET t == rem * LimbBase + a[i]
         IN  BigDivLimbFrom(a, k, i - 1, t % k) \o <<t \div k>>

\* floor(a / 2^n)
BigShr(a, n) ==
    CHOOSE r \in {BigNorm(BigDivLimbFrom(rest, 2 ^ (k % LimbBits), Len(rest), 0)) :
                     rest \in {IF n \div LimbBits >= Len(x) THEN <<>>
                               ELSE SubSeq(x, n \div LimbBits + 1, Len(x)) : x \in {a}},
                     k \in {n}} : TRUE

RECURSIVE BitLength(_)
BitLength(k) == IF k = 0 THEN 0 ELSE 1 + BitLength(k \div 2)

BigBitLength(a) ==
    CHOOSE r \in {IF x = <<>> THEN 0 ELSE (Len(x) - 1) * LimbBits + BitLength(x[Len(x)]) :
                     x \in {a}} : TRUE

BigOdd(a) == a # <<>> /\ a[1] % 2 = 1

\* the greatest limb k in lo..hi with d * k <= cur, where d * lo <= cur
RECURSIVE QuotientLimb(_, _, _, _)
QuotientLimb(cur, d, lo, hi) ==
    IF lo = hi THEN lo
    ELSE CHOOSE r \in {IF BigCmp(BigMulLimb(d, mid), cur) <= 0
                       THEN QuotientLimb(cur, d, mid, h)
                       ELSE QuotientLimb(cur, d, l, mid - 1) :
                          mid \in {(lo + hi + 1) \div 2}, l \in {lo}, h \in {hi}} : TRUE

\* long division of the limbs i..1 of a by d, rem < d carried in from above and
\* q the quotient limbs found so far: <<quotient, remainder>>
RECURSIVE BigDivModFrom(_, _, _, _, _)
BigDivModFrom(a, d, i, rem, q) ==
    IF i = 0 THEN <<BigNorm(q), rem>>
    ELSE CHOOSE r \in {BigDivModFrom(a, d, i - 1, BigSub(cq[1], BigMulLimb(d, cq[2])),
                                     <<cq[2]>> \o done) :
                          cq \in {<<cur, QuotientLimb(cur, d, 0, LimbBase - 1)>> :
                                     cur \in {BigNorm(<<a[i]>> \o rem)}},
                          done \in {q}} : TRUE

\* <<floor(a / d), a mod d>>, for d > 0
BigDivMod(a, d) ==
    CHOOSE r \in {BigDivModFrom(x, y, Len(x), <<>>, <<>>) : x \in {a}, y \in {d}} : TRUE

\* floor(sqrt(a)) by Newton's iteration downwards from root >= floor(sqrt(a))
RECURSIVE BigSqrtFrom(_, _)
BigSqrtFrom(a, root) ==
    CHOOSE r \in {IF BigCmp(cr[2], cr[1]) >= 0 THEN cr[1] ELSE BigSqrtFrom(a, cr[2]) :
                      cr \in {<<rt, BigShr(BigAdd(rt, BigDivMod(a, rt)[1]), 1)>> : rt \in {root}}} : TRUE

BigSqrt(a) ==
    CHOOSE r \in {IF x = <<>> THEN <<>>
                  ELSE BigSqrtFrom(x, BigShl(<<1>>, (BigBitLength(x) + 1) \div 2)) :
                      x \in {a}} : TRUE

Double(sign, mant, exp) == [sign |-> sign, mant |-> mant, exp |-> exp]

DoubleZero == Double(1, <<>>, 0)

IsZero(d) == d.mant = <<>>

\* the double nearest to sign * (mant * 2^exp + rest), where 0 <= rest < 2^exp and
\* sticky says rest > 0; ties go to the even significand
RoundOff(sign, mant, exp, sticky) ==
    LET len == BigBitLength(mant)
        drop == len - SignificandBits
    IN  IF mant = <<>> THEN DoubleZero
        ELSE IF drop <= 0 THEN Double(sign, BigShl(mant, -drop), exp + drop)
        ELSE LET q == BigShr(mant, drop)
                 lost == BigSub(mant, BigShl(q, drop))
                 half == BigCmp(lost, BigShl(<<1>>, drop - 1))
                 up == half > 0 \/ (half = 0 /\ (sticky \/ BigOdd(q)))
                 r == IF up THEN BigAdd(q, <<1>>) ELSE q
             IN  IF BigBitLength(r) > SignificandBits
                 THEN Double(sign, BigShr(r, 1), exp + drop + 1)
                 ELSE Double(sign, r, exp + drop)

RoundToDouble(sign, mant, exp, sticky) ==
    CHOOSE d \in {RoundOff(s, m, e, sticky) : s \in {sign}, m \in {mant}, e \in {exp}} : TRUE

DoubleNeg(a) ==
    CHOOSE d \in {IF IsZero(x) THEN x ELSE Double(-x.sign, x.mant, x.exp) : x \in {a}} : TRUE

\* a + b, for two doubles held as values
AddDoubles(a, b) ==
    IF IsZero(a) THEN b
    ELSE IF IsZero(b) THEN a
    ELSE LET e == IF a.exp < b.exp THEN a.exp ELSE b.exp
             x == BigShl(a.mant, a.exp - e)
             y == BigShl(b.mant, b.exp - e)
             c == BigCmp(x, y)
         IN  IF a.sign = b.sign THEN RoundToDouble(a.sign, BigAdd(x, y), e, FALSE)
             ELSE IF c = 0 THEN DoubleZero
             ELSE IF c > 0 THEN RoundToDouble(a.sign, BigSub(x, y), e, FALSE)
             ELSE RoundToDouble(b.sign, BigSub(y, x), e, FALSE)

\* a + b
DoubleAdd(a, b) == CHOOSE d \in {AddDoubles(x, y) : x \in {a}, y \in {b}} : TRUE

\* a - b
DoubleSub(a, b) == DoubleAdd(a, DoubleNeg(b))

\* a * b
DoubleMul(a, b) ==
    CHOOSE d \in {IF IsZero(x) \/ IsZero(y) THEN DoubleZero
                  ELSE RoundToDouble(x.sign * y.sign, BigMul(x.mant, y.mant), x.exp + y.exp,
                                     FALSE) : x \in {a}, y \in {b}} : TRUE

GuardBits == 4 * LimbBits      \* bits a quotient or a root is computed beyond the significand

\* a / b, for b # 0
DoubleDiv(a, b) ==
    CHOOSE d \in {IF IsZero(x) THEN DoubleZero
                  ELSE CHOOSE q \in {RoundToDouble(x.sign * y.sign, qr[1],
                                                   x.exp - GuardBits - y.exp, qr[2] # <<>>) :
                                        qr \in {BigDivMod(BigShl(x.mant, GuardBits), y.mant)}} :
                           TRUE : x \in {a}, y \in {b}} : TRUE

\* Math.sqrt(a), for a >= 0
DoubleSqrt(a) ==
    CHOOSE d \in {IF IsZero(x) THEN DoubleZero
                  ELSE LET shift == IF (x.exp - GuardBits) % 2 = 0 THEN GuardBits
                                    ELSE GuardBits + 1
                           n == BigShl(x.mant, shift)
                       IN  CHOOSE q \in {RoundToDouble(1, root, (x.exp - shift) \div 2,
                                                       BigMul(root, root) # n) :
                                            root \in {BigSqrt(n)}} : TRUE : x \in {a}} : TRUE

DoubleOfInt(n) == RoundToDouble(IF n < 0 THEN -1 ELSE 1, BigOfNat(IF n < 0 THEN -n ELSE n), 0, FALSE)

\* the double of the number m / 10^e of the model
DoubleOfNum(v) ==
    IF v.e = 0 THEN DoubleOfInt(v.m)
    ELSE DoubleDiv(DoubleOfInt(v.m), DoubleOfInt(10 ^ v.e))

\* x.reduce((a, b) => a + b, 0)
RECURSIVE DoubleSum(_, _, _)
DoubleSum(x, i, acc) ==
    IF i > Len(x) THEN acc ELSE DoubleSum(x, i + 1, DoubleAdd(acc, x[i]))

\* the sum over i = from..n of (x[i] - mx) * (y[i] - my), added to acc in the order of the loop
RECURSIVE SumDeviationProducts(_, _, _, _, _, _, _)
SumDeviationProducts(x, mx, y, my, i, n, acc) ==
    IF i > n THEN acc
    ELSE SumDeviationProducts(x, mx, y, my, i + 1, n,
             DoubleAdd(acc, DoubleMul(DoubleSub(x[i], mx), DoubleSub(y[i], my))))

\* pearson(x, y) on two lists of doubles
PearsonDouble(x, y) ==
    LET n == IF Len(x) < Len(y) THEN Len(x) ELSE Len(y)
    IN  IF n = 0 THEN DoubleZero
        ELSE CHOOSE r \in
                 {CHOOSE q \in
                      {IF IsZero(den) THEN DoubleZero
                       ELSE DoubleDiv(SumDeviationProducts(x, mx, y, my, 1, n, DoubleZero), den) :
                           den \in {DoubleMul(
                               DoubleSqrt(SumDeviationProducts(x, mx, x, mx, 1, n, DoubleZero)),
                               DoubleSqrt(SumDeviationProducts(y, my, y, my, 1, n, DoubleZero)))}} :
                      TRUE :
                     mx \in {DoubleDiv(DoubleSum(x, 1, DoubleZero), DoubleOfInt(n))},
                     my \in {DoubleDiv(DoubleSum(y, 1, DoubleZero), DoubleOfInt(n))}} : TRUE

(***************************************************************************)
(* The raw column keys the model draws from.                               *)
(***************************************************************************)
RawKeys ==
    { <<>>,                                          \* ""
      <<" ">>,                                       \* " "
      <<"a">>,                                       \* "a"
      <<" ", "a">>,                                  \* " a"
      <<"a", "_", "1">>,                             \* "a_1"
      <<"_">>,                                       \* "_"
      <<"_", " ">>,                                  \* "_ "
      <<"_", "1">>,                                  \* "_1"
      <<"_", "_", "E", "M", "P", "T", "Y">>,         \* "__EMPTY"
      <<"_", "e", "m", "p", "t", "y", "_", "1">>,    \* "_empty_1"
      <<"C", "o", "l", "u", "m", "n", "_", "1">>,    \* "Column_1"
      <<"C", "o", "l", "u", "m", "n", "_", "1", "_", "1">> }  \* "Column_1_1"

\* the lists of at most n pairwise distinct elements of S
RECURSIVE DistinctSeqs(_, _)
DistinctSeqs(S, n) ==
    IF n = 0 THEN {<<>>}
    ELSE LET shorter == DistinctSeqs(S, n - 1)
         IN  shorter \cup
             UNION {{Append(s, x) : x \in S \ SeqToSet(s)} :
                    s \in {t \in shorter : Len(t) = n - 1}}

KeyLists == DistinctSeqs(RawKeys, MaxKeys)

(***************************************************************************)
(* The sanitizer run: the keys of the first row are sanitized, and the     *)
(* names produced are sanitized once more.                                 *)
(***************************************************************************)
NoData == [present |-> FALSE, rows |-> <<>>]

IdleSanitize == rawColumnNames = <<>> /\ nameMap = <<>> /\ resanitized = <<>>
IdleProfile == data = NoData /\ profile = NoProfile
IdleDetect == values = <<>> /\ detected = "none"
IdleFilter == fData = <<>> /\ fFilters = <<>> /\ fResult = <<>>
IdleStats == sData = <<>> /\ sColumn = <<>> /\ stats = NoStats
IdleAnalytics == aColumns = <<>> /\ aRows = <<>> /\ lines = <<>>
IdlePearson ==
    pearsonX = <<>> /\ pearsonY = <<>> /\ pearsonXY = DoubleZero /\ pearsonYX = DoubleZero

NoOrigin == [dataset |-> 0, rawData |-> 0, filters |-> 0]

NoHash == [present |-> FALSE, payload |-> <<>>]

IdleDashboard ==
    /\ dataset = NoProfile /\ rawData = <<>> /\ filterConfigs = <<>> /\ visualizations = 0
    /\ origin = NoOrigin /\ hash = NoHash /\ mounted = FALSE /\ ingestions = <<>>
    /\ parser = <<>>

InitSanitize ==
    /\ rawColumnNames \in KeyLists
    /\ nameMap = <<>>
    /\ resanitized = <<>>
    /\ IdleProfile /\ IdleDetect /\ IdleFilter /\ IdleStats /\ IdleAnalytics
    /\ fallbackDate = NaNTime
    /\ pc = "start"
    /\ IdlePearson
    /\ IdleDashboard

SanitizeKeys ==
    /\ pc = "start"
    /\ nameMap' = SanitizeAll(rawColumnNames)
    /\ pc' = "sanitized"
    /\ UNCHANGED <<rawColumnNames, resanitized, data, profile, values, detected,
                   fData, fFilters, fResult, fallbackDate>>
    /\ UNCHANGED <<sData, sColumn, stats, aColumns, aRows, lines>>
    /\ UNCHANGED pearsonVars
    /\ UNCHANGED dashboardVars

SanitizeAgain ==
    /\ pc = "sanitized"
    /\ resanitized' = SanitizeAll(nameMap)
    /\ pc' = "resanitized"
    /\ UNCHANGED <<rawColumnNames, nameMap, data, profile, values, detected,
                   fData, fFilters, fResult, fallbackDate>>
    /\ UNCHANGED <<sData, sColumn, stats, aColumns, aRows, lines>>
    /\ UNCHANGED pearsonVars
    /\ UNCHANGED dashboardVars

NextSanitize == SanitizeKeys \/ SanitizeAgain

SpecSanitize == InitSanitize /\ [][NextSanitize]_vars

IsDistinctSeq(s) == \A i, j \in 1..Len(s) : i # j => s[i] # s[j]

\* C3: the sanitized names of any list of distinct raw keys are pairwise distinct,
\* one per raw key: no two raw columns are merged into one name.
C3_NamesDistinct ==
    pc \in {"sanitized", "resanitized"} =>
        /\ Len(nameMap) = Len(rawColumnNames)
        /\ IsDistinctSeq(nameMap)

\* C3 witness: two raw keys are equal after trimming and one raw key equals the
\* name the first dedup suffix generates, so the loop ran more than once.
C3_Witness ==
    /\ pc = "sanitized"
    /\ \E i, j, k \in 1..Len(rawColumnNames) :
          /\ i < j /\ k < j
          /\ ~Invalid(Trim(rawColumnNames[i]))
          /\ Trim(rawColumnNames[i]) = Trim(rawColumnNames[j])
          /\ Trim(rawColumnNames[k]) = Trim(rawColumnNames[i]) \o <<"_", "1">>
          /\ nameMap[j] = Trim(rawColumnNames[i]) \o <<"_", "1", "_", "2">>

\* C4 as claimed: sanitizing the names the sanitizer produced gives the same
\* names in the same order.
C4_Idempotent ==
    pc = "resanitized" => resanitized = nameMap

(***************************************************************************)
(* The profiling run: a row list is built and handed to                    *)
(* generateDatasetProfile.  The first row fixes the keys; a later row holds *)
(* a value for each of them or lacks the key.                              *)
(***************************************************************************)
ProfileKeyLists ==
    { <<>>,
      << <<"a">> >>,
      << <<"a">>, <<"b">> >>,
      << <<"a">>, <<" ", "a">> >>,                                   \* "a", " a"
      << <<>>, <<"C", "o", "l", "u", "m", "n", "_", "1">> >> }      \* "", "Column_1"

FirstRowValues ==
    { Null, Str(<<" ">>), Str(<<"x">>), Str(<<" ", "1", ",", "0", "0", "0">>) }

LaterRowValues ==
    { Str(<<>>), Str(<<"x", " ">>), Num(5, 0) }

\* the rows that hold a value of V under each key of keys, or (optional) lack keys
RECURSIVE RowsOver(_, _, _)
RowsOver(keys, V, optional) ==
    IF keys = <<>> THEN {<<>>}
    ELSE LET rest == RowsOver(Tail(keys), V, optional)
         IN  {<< <<Head(keys), v>> >> \o r : v \in V, r \in rest}
             \cup (IF optional THEN rest ELSE {})

DatasetNames ==
    { <<"s", ".", "c", "s", "v">>,       \* "s.csv"
      <<"v", ".", "1", "/", "s">> }      \* "v.1/s"

\* the answers of the engine's fallback date parser: NaN, or some instant
FallbackTimes == {NaNTime, Time(11443, 0)}

InitProfile ==
    /\ data \in {NoData, [present |-> TRUE, rows |-> <<>>]}
                \cup {[present |-> TRUE, rows |-> <<r>>] :
                        r \in UNION {RowsOver(k, FirstRowValues, FALSE) : k \in ProfileKeyLists}}
    /\ profile = NoProfile
    /\ IdleSanitize /\ IdleDetect /\ IdleFilter /\ IdleStats /\ IdleAnalytics
    /\ fallbackDate = NaNTime
    /\ pc = "start"
    /\ IdlePearson
    /\ IdleDashboard

AddRow ==
    /\ pc = "start"
    /\ data.present
    /\ Len(data.rows) \in 1..(MaxRows - 1)
    /\ \E r \in RowsOver(Keys(data.rows[1]), LaterRowValues, TRUE) :
          data' = [data EXCEPT !.rows = Append(@, r)]
    /\ UNCHANGED <<rawColumnNames, nameMap, resanitized, profile, values, detected,
                   fData, fFilters, fResult, fallbackDate, pc>>
    /\ UNCHANGED <<sData, sColumn, stats, aColumns, aRows, lines>>
    /\ UNCHANGED pearsonVars
    /\ UNCHANGED dashboardVars

Generate ==
    /\ pc = "start"
    /\ \E datasetName \in DatasetNames, fallback \in FallbackTimes :
          /\ profile' = GenerateDatasetProfile(data, datasetName, fallback)
          /\ fallbackDate' = fallback
    /\ pc' = "profiled"
    /\ UNCHANGED <<rawColumnNames, nameMap, resanitized, data, values, detected,
                   fData, fFilters, fResult>>
    /\ UNCHANGED <<sData, sColumn, stats, aColumns, aRows, lines>>
    /\ UNCHANGED pearsonVars
    /\ UNCHANGED dashboardVars

NextProfile == AddRow \/ Generate

SpecProfile == InitProfile /\ [][NextProfile]_vars

KeySet(row) == {row[i][1] : i \in 1..Len(row)}

\* C1: a returned profile has total_rows = the length of rows = the number of input
\* rows, and as many columns as there are column names of the cleaned rows that
\* hold a non-empty value in at least one row.
C1_RowAndColumnCounts ==
    profile.status = "ok" =>
        /\ profile.total_rows = Len(profile.rows)
        /\ Len(profile.rows) = Len(data.rows)
        /\ Len(profile.columns) =
              Cardinality({k \in UNION {KeySet(profile.rows[i]) : i \in 1..Len(profile.rows)} :
                              \E i \in 1..Len(profile.rows) : NonEmpty(Get(profile.rows[i], k))})

\* C1 witness: two rows were profiled; one column is empty in the first row and
\* not in the second, another is empty in both, and one column was kept.
C1_Witness ==
    /\ profile.status = "ok"
    /\ Len(data.rows) = 2 /\ Len(data.rows[1]) = 2
    /\ Len(profile.columns) = 1
    /\ \E k \in KeySet(profile.rows[1]) :
          /\ ~NonEmpty(Get(profile.rows[1], k))
          /\ NonEmpty(Get(profile.rows[2], k))

\* C2 as claimed: every cleaned row has exactly the column names as its keys.
C2_RowKeysAreColumns ==
    profile.status = "ok" =>
        \A i \in 1..Len(profile.rows) :
            KeySet(profile.rows[i]) =
                {profile.columns[j].name : j \in 1..Len(profile.columns)}

\* C5: the call throws 'Dataset is empty or invalid', returning no profile, exactly
\* when the row list is absent or empty; with at least one row it returns a profile.
C5_EmptyThrows ==
    pc = "profiled" =>
        /\ (~data.present \/ Len(data.rows) = 0) =>
              /\ profile.status = "thrown"
              /\ profile.error = "Dataset is empty or invalid"
        /\ (data.present /\ Len(data.rows) >= 1) =>
              /\ profile.status = "ok"
              /\ profile.error # "Dataset is empty or invalid"

\* C5 witness: the call was made with an empty list and threw.
C5_Witness ==
    /\ data.present /\ Len(data.rows) = 0
    /\ profile.status = "thrown"

(***************************************************************************)
(* The type-inference run: detectColumnType on a list of non-empty cleaned *)
(* values.                                                                 *)
(***************************************************************************)
IsoDate(y, m, d) == Str(PadDigits(y, 4) \o <<"-">> \o PadDigits(m, 2) \o <<"-">> \o PadDigits(d, 2))

V_One == Num(1, 0)                                  \* 1, a boolean token
V_Int == Num(25, 0)                                 \* 25
V_Float == Num(15, 1)                               \* 1.5
V_Date == IsoDate(2020, 1, 15)                      \* "2020-01-15"
V_Text == Str(<<"a", "b", "c">>)                    \* "abc"
V_Yes == Str(<<"Y", "e", "s">>)                     \* "Yes"
V_True == Bool(TRUE)                                \* true
V_MonthDay == Str(<<"J", "u", "n", " ", "1", "5", " ", "2", "0", "2", "0">>)   \* "Jun 15 2020"
V_Odd == Str(<<"n", "o", ".", " ", "1", "7">>)      \* "no. 17", left to the fallback parser
V_Year == Num(2020, 0)                              \* 2020

DetectValues == {V_One, V_Int, V_Float, V_Date, V_Text}

\* the lists of at most n elements of S
RECURSIVE Seqs(_, _)
Seqs(S, n) ==
    IF n = 0 THEN {<<>>}
    ELSE LET shorter == Seqs(S, n - 1)
         IN  shorter \cup {Append(s, x) : s \in {t \in shorter : Len(t) = n - 1}, x \in S}

\* n copies of v
Repeat(v, n) == [i \in 1..n |-> v]

\* longer lists at the boundaries of the two thresholds, and the values that the
\* short lists leave out
DetectFixtures ==
    { Repeat(V_Date, 7) \o Repeat(V_Text, 2),                    \* 7 of 9 dates
      Repeat(V_Date, 8) \o Repeat(V_Text, 2),                    \* 8 of 10 dates
      Repeat(V_Date, 7) \o <<V_Int, V_Text>>,
      Repeat(V_Int, 9) \o <<V_Float>>,                           \* 9 of 10 integers
      Repeat(V_Int, 8) \o <<V_Float>>,                           \* 8 of 9 integers
      Repeat(V_Int, 8) \o <<V_Float, V_Text>>,
      Repeat(V_Int, 7) \o <<V_Float, V_Text>>,
      Repeat(V_Year, 4) \o <<V_Text>>,
      Repeat(V_MonthDay, 4) \o <<V_Text>>,
      Repeat(V_MonthDay, 3) \o <<V_Date, V_Odd>>,
      Repeat(V_Odd, 4) \o <<V_Text>>,
      Repeat(V_Date, 3) \o <<V_Odd, V_Text>>,
      Repeat(V_Date, 2) \o <<V_Odd, V_Text>>,
      Repeat(V_Yes, 3) \o <<V_True, V_Text>>,
      Repeat(V_Yes, 2) \o <<V_True, V_Text>>,
      Repeat(V_One, 2) \o <<V_Yes, V_True, V_Int>> }

InitDetect ==
    /\ values \in Seqs(DetectValues, MaxValues) \cup DetectFixtures
    /\ detected = "none"
    /\ IdleSanitize /\ IdleProfile /\ IdleFilter /\ IdleStats /\ IdleAnalytics
    /\ fallbackDate = NaNTime
    /\ pc = "start"
    /\ IdlePearson
    /\ IdleDashboard

Detect ==
    /\ pc = "start"
    /\ \E fallback \in FallbackTimes :
          /\ detected' = DetectColumnType(values, fallback)
          /\ fallbackDate' = fallback
    /\ pc' = "detected"
    /\ UNCHANGED <<rawColumnNames, nameMap, resanitized, data, profile, values,
                   fData, fFilters, fResult>>
    /\ UNCHANGED <<sData, sColumn, stats, aColumns, aRows, lines>>
    /\ UNCHANGED pearsonVars
    /\ UNCHANGED dashboardVars

NextDetect == Detect

SpecDetect == InitDetect /\ [][NextDetect]_vars

\* the number of values of the list in one of the buckets B
InBuckets(B) ==
    Cardinality({i \in 1..Len(values) : Bucket(values[i], fallbackDate) \in B})

\* C6: on a non-empty list the type is boolean if the boolean values are at least
\* 80% of all; else date if the dates are; else, if the numeric values are, integer
\* when the integers are at least 90% of the numeric values and float otherwise;
\* else string.
C6_TypeRule ==
    LET total == Len(values)
        booleans == InBuckets({"boolean"})
        dates == InBuckets({"date"})
        numerics == InBuckets({"integer", "numeric"})
        integers == InBuckets({"integer"})
    IN  (pc = "detected" /\ total > 0) =>
            detected =
                IF 5 * booleans >= 4 * total THEN "boolean"
                ELSE IF 5 * dates >= 4 * total THEN "date"
                ELSE IF 5 * numerics >= 4 * total
                     THEN (IF 10 * integers >= 9 * numerics THEN "integer" ELSE "float")
                ELSE "string"

\* C6 witness: a list of nine integers and one float was typed integer.
C6_Witness ==
    /\ detected = "integer"
    /\ Len(values) = 10
    /\ InBuckets({"integer"}) = 9 /\ InBuckets({"numeric"}) = 1

\* C7: a list in which exactly 4 of 5 values are dates is typed date, and a list
\* in which fewer than 80% of the values are dates is not.
C7_DateThreshold ==
    pc = "detected" =>
        /\ (Len(values) = 5 /\ InBuckets({"date"}) = 4) => detected = "date"
        /\ (Len(values) > 0 /\ 5 * InBuckets({"date"}) < 4 * Len(values)) => detected # "date"

\* C7 witness: 4 dates and one unclassified value were typed date.
C7_Witness ==
    /\ detected = "date"
    /\ Len(values) = 5
    /\ InBuckets({"date"}) = 4 /\ InBuckets({"none"}) = 1

\* C7 witness: 7 dates of 9 values were not typed date.
C7_WitnessBelow ==
    /\ pc = "detected" /\ detected # "date"
    /\ Len(values) = 9
    /\ InBuckets({"date"}) = 7

(***************************************************************************)
(* The filter run: applyFilters on a row list and a filter list.           *)
(***************************************************************************)
ColC == <<"c">>
ColD == <<"d">>

MonthDay(mon, d, y) == Str(mon \o <<" ">> \o PadDigits(d, 2) \o <<" ">> \o PadDigits(y, 4))

FilterRows ==
    { << <<ColC, Num(5, 0)>>, <<ColD, Str(<<"x">>)>> >>,                 \* {c: 5, d: "x"}
      << <<ColC, IsoDate(2020, 6, 15)>>, <<ColD, Str(<<"y">>)>> >>,       \* {c: "2020-06-15", d: "y"}
      << <<ColC, MonthDay(<<"J", "u", "n">>, 15, 2021)>>,
         <<ColD, Str(<<"x">>)>> >>,                                       \* {c: "Jun 15 2021", d: "x"}
      << <<ColC, V_Odd>>, <<ColD, EmptyString>> >> }                      \* {c: "no. 17", d: ""}

Filter(column, hasValues, vals, min, max) ==
    [column |-> column, hasValues |-> hasValues, values |-> vals, min |-> min, max |-> max]

Filters ==
    { Filter(ColD, FALSE, <<>>, Undefined, Undefined),       \* {column: 'd'}
      Filter(ColD, TRUE, <<>>, Undefined, Undefined),        \* {column: 'd', values: []}
      Filter(ColD, TRUE, <<Str(<<"x">>)>>, Num(0, 0), Num(0, 0)),
                                                             \* {column: 'd', values: ['x'], min: 0, max: 0}
      Filter(ColC, FALSE, <<>>, Num(0, 0), Num(10, 0)),      \* {column: 'c', min: 0, max: 10}
      Filter(ColC, FALSE, <<>>, IsoDate(2020, 1, 1), IsoDate(2020, 12, 31)),
                                                             \* min: '2020-01-01', max: '2020-12-31'
      Filter(ColC, TRUE, <<>>, MonthDay(<<"J", "a", "n">>, 1, 2020),
             MonthDay(<<"D", "e", "c">>, 31, 2020)),         \* values: [], min: 'Jan 01 2020', max: 'Dec 31 2020'
      Filter(ColC, FALSE, <<>>, V_Text, Str(<<"z">>)),       \* min: 'abc', max: 'z'
      Filter(ColC, FALSE, <<>>, Num(0, 0), Undefined) }      \* {column: 'c', min: 0}

InitFilter ==
    /\ fData \in Seqs(FilterRows, MaxFilterRows)
    /\ fFilters \in DistinctSeqs(Filters, MaxFilters)
    /\ fResult = <<>>
    /\ IdleSanitize /\ IdleProfile /\ IdleDetect /\ IdleStats /\ IdleAnalytics
    /\ fallbackDate = NaNTime
    /\ pc = "start"
    /\ IdlePearson
    /\ IdleDashboard

Apply ==
    /\ pc = "start"
    /\ \E fallback \in FallbackTimes :
          /\ fResult' = ApplyFilters(fData, fFilters, fallback)
          /\ fallbackDate' = fallback
    /\ pc' = "filtered"
    /\ UNCHANGED <<rawColumnNames, nameMap, resanitized, data, profile, values, detected,
                   fData, fFilters>>
    /\ UNCHANGED <<sData, sColumn, stats, aColumns, aRows, lines>>
    /\ UNCHANGED pearsonVars
    /\ UNCHANGED dashboardVars

NextFilter == Apply

SpecFilter == InitFilter /\ [][NextFilter]_vars

\* the indices of the rows that pass every filter
Kept(rows, filters, fallback) ==
    {i \in 1..Len(rows) :
        \A j \in 1..Len(filters) : FilterPasses(rows[i], filters[j], fallback)}

\* the k-th smallest element of the set K of numbers
Nth(K, k) == CHOOSE i \in K : Cardinality({j \in K : j < i}) = k - 1

\* C8: the call returns exactly the rows that pass every filter, in their
\* original order, and leaves the row list and the filter list as they were.
C8_AndSemantics ==
    [][ (pc = "start" /\ pc' = "filtered") =>
          LET K == Kept(fData, fFilters, fallbackDate')
          IN  /\ fData' = fData
              /\ fFilters' = fFilters
              /\ Len(fResult') = Cardinality(K)
              /\ \A k \in 1..Len(fResult') : fResult'[k] = fData[Nth(K, k)] ]_vars

\* C8 witness: of two rows the first was removed by the second of two filters,
\* and it passes the first filter.
C8_Witness ==
    /\ pc = "filtered"
    /\ Len(fData) = 2 /\ Len(fFilters) = 2
    /\ fResult = <<fData[2]>>
    /\ FilterPasses(fData[1], fFilters[1], fallbackDate)
    /\ ~FilterPasses(fData[1], fFilters[2], fallbackDate)

\* C9: an empty row list gives an empty result whatever the filters, and an empty
\* filter list gives back all the rows in order.
C9_EmptyInputs ==
    pc = "filtered" =>
        /\ fData = <<>> => fResult = <<>>
        /\ fFilters = <<>> => fResult = fData

\* C9 witness: two different rows went through an empty filter list.
C9_Witness ==
    /\ pc = "filtered"
    /\ fFilters = <<>>
    /\ Len(fData) = 2 /\ fData[1] # fData[2]
    /\ fResult = fData

\* a filter with no criteria: no or an empty inclusion set, min and max not set
NoCriteria(filter) ==
    /\ ~filter.hasValues \/ Len(filter.values) = 0
    /\ filter.min = Undefined /\ filter.max = Undefined

\* C10: when every filter of the list is without criteria, every row is returned.
C10_NoCriteriaNoOp ==
    (pc = "filtered" /\ \A j \in 1..Len(fFilters) : NoCriteria(fFilters[j])) =>
        fResult = fData

\* C10 witness: a filter with an empty inclusion set on column d kept two rows whose
\* values in d differ.
C10_Witness ==
    /\ pc = "filtered"
    /\ Len(fFilters) >= 1
    /\ \A j \in 1..Len(fFilters) : NoCriteria(fFilters[j])
    /\ \E j \in 1..Len(fFilters) : fFilters[j].hasValues /\ fFilters[j].column = ColD
    /\ Len(fData) = 2
    /\ Get(fData[1], ColD) # Get(fData[2], ColD)
    /\ fResult = fData

(***************************************************************************)
(* The single-filter run: applyFilters on one row and one filter, over the *)
(* values and the bounds the two comparisons of a range filter tell apart. *)
(***************************************************************************)
\* the values of column c: numbers, numeric strings, dates in the two forms the
\* model parses, text, a string left to the fallback parser, and the empty values
OneFilterValues ==
    { Num(0, 0), Num(5, 0), Num(10, 0), Num(11, 0), Num(75, 1),          \* 0, 5, 10, 11, 7.5
      Str(<<"5">>), Str(<<"1", "0", " ", "k", "g">>),                     \* "5", "10 kg"
      IsoDate(2020, 3, 15), IsoDate(2020, 6, 15), IsoDate(2021, 6, 15),
      MonthDay(<<"M", "a", "r">>, 15, 2020), MonthDay(<<"J", "u", "n">>, 15, 2020),
      V_Text, V_Odd, EmptyString, Null }

\* {c: v} for each value, and a row without the column
OneFilterRows == { << <<ColC, v>> >> : v \in OneFilterValues } \cup { <<>> }

OneFilterFilters ==
    { Filter(ColC, TRUE, <<Num(5, 0)>>, Num(6, 0), Num(10, 0)),       \* values: [5], min: 6, max: 10
      Filter(ColC, TRUE, <<Str(<<"5">>)>>, Num(0, 0), Num(10, 0)),    \* values: ['5'], min: 0, max: 10
      Filter(ColC, TRUE, <<V_Text, Num(10, 0), Null>>, Undefined, Undefined),
                                                                      \* values: ['abc', 10, null]
      Filter(ColC, FALSE, <<>>, Num(0, 0), Num(10, 0)),               \* min: 0, max: 10
      Filter(ColC, FALSE, <<>>, Str(<<"5">>), Str(<<"1", "0">>)),     \* min: '5', max: '10'
      Filter(ColC, TRUE, <<>>, Num(10, 0), Num(0, 0)),                \* values: [], min: 10, max: 0
      Filter(ColC, FALSE, <<>>, IsoDate(2020, 3, 1), IsoDate(2020, 3, 31)),
                                                                      \* min: '2020-03-01', max: '2020-03-31'
      Filter(ColC, FALSE, <<>>, IsoDate(2020, 1, 1), IsoDate(2020, 12, 31)),
      Filter(ColC, FALSE, <<>>, MonthDay(<<"M", "a", "r">>, 1, 2020),
             MonthDay(<<"M", "a", "r">>, 31, 2020)),                  \* min: 'Mar 01 2020', max: 'Mar 31 2020'
      Filter(ColC, FALSE, <<>>, Num(0, 0), MonthDay(<<"M", "a", "r">>, 31, 2020)),
                                                                      \* min: 0, max: 'Mar 31 2020'
      Filter(ColC, FALSE, <<>>, V_Text, Str(<<"z">>)),                \* min: 'abc', max: 'z'
      Filter(ColC, FALSE, <<>>, Num(0, 0), V_Text) }                  \* min: 0, max: 'abc'

InitOneFilter ==
    /\ fData \in {<<row>> : row \in OneFilterRows}
    /\ fFilters \in {<<filter>> : filter \in OneFilterFilters}
    /\ fResult = <<>>
    /\ IdleSanitize /\ IdleProfile /\ IdleDetect /\ IdleStats /\ IdleAnalytics
    /\ fallbackDate = NaNTime
    /\ pc = "start"
    /\ IdlePearson
    /\ IdleDashboard

NextOneFilter == Apply

SpecOneFilter == InitOneFilter /\ [][NextOneFilter]_vars

\* a === b on values other than NaN: the same type and the same value
StrictEquals(a, b) ==
    /\ a.t = b.t /\ a.t # "NaN"
    /\ a.s = b.s
    /\ a.m * Pow10(b.e) = b.m * Pow10(a.e)

\* a <= b on the numbers m / 10^e
AtMost(a, b) == a.m * Pow10(b.e) <= b.m * Pow10(a.e)

HasInclusionSet(filter) == filter.hasValues /\ Len(filter.values) > 0

IsRange(filter) ==
    ~HasInclusionSet(filter) /\ filter.min # Undefined /\ filter.max # Undefined

\* the one row of the run was returned
RowKept == fResult = fData

\* the one row of the run was removed
RowRemoved == fResult = <<>>

\* C11: under a filter with a non-empty inclusion set the row is kept if and only
\* if its raw value in the filter's column is strictly equal to a member of the
\* set, whatever min and max the filter carries.
C11_InclusionSet ==
    (pc = "filtered" /\ HasInclusionSet(fFilters[1])) =>
        LET rawValue == Get(fData[1], fFilters[1].column)
            member == \E i \in 1..Len(fFilters[1].values) :
                          StrictEquals(rawValue, fFilters[1].values[i])
        IN  /\ member => RowKept
            /\ ~member => RowRemoved

\* C11 witness: the row {c: 5} was removed by the inclusion set ['5'] although
\* the filter's bounds 0 and 10 hold 5.
C11_Witness ==
    /\ pc = "filtered"
    /\ Get(fData[1], ColC) = Num(5, 0)
    /\ fFilters[1].values = <<Str(<<"5">>)>>
    /\ fFilters[1].min = Num(0, 0) /\ fFilters[1].max = Num(10, 0)
    /\ RowRemoved

\* C12: under a range filter, when parseFloat reads a number in the row's value
\* and both bounds are numbers (or strings parseFloat reads a number in), the row
\* is kept if and only if min <= value <= max, the endpoints included.
C12_NumericRange ==
    LET num == ParseFloat(Get(fData[1], fFilters[1].column))
        minNum == BoundNumber(fFilters[1].min)
        maxNum == BoundNumber(fFilters[1].max)
    IN  (/\ pc = "filtered" /\ IsRange(fFilters[1])
         /\ num.t = "number" /\ minNum.t = "number" /\ maxNum.t = "number") =>
            IF AtMost(minNum, num) /\ AtMost(num, maxNum) THEN RowKept ELSE RowRemoved

\* C12 witness: the row {c: 10} was kept by the range 0 to 10, its value on the
\* upper endpoint.
C12_Witness ==
    /\ pc = "filtered"
    /\ Get(fData[1], ColC) = Num(10, 0)
    /\ IsRange(fFilters[1])
    /\ fFilters[1].min = Num(0, 0) /\ fFilters[1].max = Num(10, 0)
    /\ RowKept

\* the string is a date the model parses without the engine's fallback parser
ParseableDate(v) == v.t = "string" /\ (IsoDateOnly(v.s) \/ MonthDayYear(v.s))

\* the string has the form YYYY-MM-DD
IsoDay(v) == v.t = "string" /\ IsoDateOnly(v.s) /\ Len(v.s) = 10

\* C13 as claimed: under a range filter whose min and max are 'YYYY-MM-DD' strings,
\* a row whose value is a parseable date string is kept if and only if its
\* timestamp lies between the timestamps of min and max.
C13_DateRange ==
    LET rawValue == Get(fData[1], fFilters[1].column)
        valTime == DateParseString(rawValue.s, NaNTime)
        minTime == DateParseString(fFilters[1].min.s, NaNTime)
        maxTime == DateParseString(fFilters[1].max.s, NaNTime)
    IN  (/\ pc = "filtered" /\ IsRange(fFilters[1])
         /\ IsoDay(fFilters[1].min) /\ IsoDay(fFilters[1].max)
         /\ ParseableDate(rawValue)) =>
            IF TimeLE(minTime, valTime) /\ TimeLE(valTime, maxTime)
            THEN RowKept ELSE RowRemoved

\* C14: under a range filter, a row for which neither comparison can be made (the
\* value or a bound is not a number to parseFloat, and the value or a bound is not
\* a date to Date.parse) is kept.
C14_NoComparisonPasses ==
    LET rawValue == Get(fData[1], fFilters[1].column)
        numeric == /\ ParseFloat(rawValue).t = "number"
                   /\ BoundNumber(fFilters[1].min).t = "number"
                   /\ BoundNumber(fFilters[1].max).t = "number"
        dates == /\ DateParse(rawValue, fallbackDate).ok
                 /\ BoundTime(fFilters[1].min, fallbackDate).ok
                 /\ BoundTime(fFilters[1].max, fallbackDate).ok
    IN  (pc = "filtered" /\ IsRange(fFilters[1]) /\ ~numeric /\ ~dates) => RowKept

\* C14 witness: the row {c: 'abc'} was kept by the range 0 to 10.
C14_Witness ==
    /\ pc = "filtered"
    /\ Get(fData[1], ColC) = V_Text
    /\ IsRange(fFilters[1])
    /\ fFilters[1].min = Num(0, 0) /\ fFilters[1].max = Num(10, 0)
    /\ RowKept

(***************************************************************************)
(* The statistics run: generateColumnStats on a row list and a column.     *)
(***************************************************************************)
MaxStatRows == 4    \* rows passed to generateColumnStats

StatValues ==
    { Num(1, 0), Num(2, 0), Num(3, 0), Num(4, 0), Num(-3, 0),     \* 1, 2, 3, 4, -3
      Str(<<"2", ".", "5">>), V_Text }                            \* "2.5", "abc"

StatRows == { << <<ColC, v>> >> : v \in StatValues }

StatColumns == {ColC, ColD}

InitStats ==
    /\ sData \in Seqs(StatRows, MaxStatRows)
    /\ sColumn = <<>>
    /\ stats = NoStats
    /\ IdleSanitize /\ IdleProfile /\ IdleDetect /\ IdleFilter /\ IdleAnalytics
    /\ fallbackDate = NaNTime
    /\ pc = "start"
    /\ IdlePearson
    /\ IdleDashboard

Describe ==
    /\ pc = "start"
    /\ \E column \in StatColumns :
          /\ sColumn' = column
          /\ stats' = GenerateColumnStats(sData, column)
    /\ pc' = "described"
    /\ UNCHANGED <<rawColumnNames, nameMap, resanitized, data, profile, values, detected,
                   fData, fFilters, fResult, sData, aColumns, aRows, lines, fallbackDate>>
    /\ UNCHANGED pearsonVars
    /\ UNCHANGED dashboardVars

NextStats == Describe

SpecStats == InitStats /\ [][NextStats]_vars

\* the number parseFloat reads in the column of row i, and whether it reads one
StatValue(i) == ParseFloat(Get(sData[i], sColumn))
Parseable(i) == StatValue(i).t = "number"

\* the rows whose value parses
ParseableRows == {i \in 1..Len(sData) : Parseable(i)}

\* a number of at most two decimals, in hundredths
Hundredths(v) == v.m * Pow10(2 - v.e)

\* the sum of the parseable values of rows 1..i, in hundredths, and of their squares
RECURSIVE SumTo(_)
SumTo(i) ==
    IF i = 0 THEN 0
    ELSE SumTo(i - 1) + (IF Parseable(i) THEN Hundredths(StatValue(i)) ELSE 0)

RECURSIVE SumSquaresTo(_)
SumSquaresTo(i) ==
    IF i = 0 THEN 0
    ELSE SumSquaresTo(i - 1)
         + (IF Parseable(i) THEN Hundredths(StatValue(i)) * Hundredths(StatValue(i)) ELSE 0)

\* r has at most two decimals and lies within 0.005 of the fraction p / q, q > 0
IsRounded2(r, p, q) ==
    /\ r.e <= 2
    /\ 2 * (Hundredths(r) * q - 100 * p) <= q
    /\ 2 * (100 * p - Hundredths(r) * q) <= q

\* C15: when n >= 1 values of the column parse, the statistics hold count = n, the
\* median = the value at index floor(n / 2) of the values in ascending order, std =
\* the population standard deviation, these two and the mean rounded to 2
\* decimals, and the exact least and greatest value; on 1, 2, 3, 4 they are mean
\* 2.5, median 3, std 1.12, min 1, max 4.
C15_ColumnStats ==
    LET n == Cardinality(ParseableRows)
        sum == SumTo(Len(sData))
        \* n^2 times the population variance, in hundredths squared
        squares == n * SumSquaresTo(Len(sData)) - sum * sum
        R == Hundredths(stats.std)
    IN  (pc = "described" /\ n >= 1) =>
            /\ stats.count = n
            /\ IsRounded2(stats.mean, sum, 100 * n)
            /\ \E i \in ParseableRows :
                  /\ Cardinality({j \in ParseableRows :
                        ~AtMost(StatValue(i), StatValue(j))}) <= n \div 2
                  /\ Cardinality({j \in ParseableRows :
                        AtMost(StatValue(j), StatValue(i))}) > n \div 2
                  /\ IsRounded2(stats.median, StatValue(i).m, Pow10(StatValue(i).e))
            /\ stats.std.e <= 2 /\ R >= 0
            /\ (2 * R - 1) * (2 * R - 1) * n * n <= 4 * squares \/ R = 0
            /\ 4 * squares <= (2 * R + 1) * (2 * R + 1) * n * n
            /\ \E i \in ParseableRows :
                  /\ stats.min = StatValue(i)
                  /\ \A j \in ParseableRows : AtMost(StatValue(i), StatValue(j))
            /\ \E i \in ParseableRows :
                  /\ stats.max = StatValue(i)
                  /\ \A j \in ParseableRows : AtMost(StatValue(j), StatValue(i))
            /\ [i \in 1..Len(sData) |-> Get(sData[i], sColumn)]
                   = <<Num(1, 0), Num(2, 0), Num(3, 0), Num(4, 0)>> =>
                  stats = [count |-> 4, mean |-> Num(25, 1), median |-> Num(3, 0),
                           std |-> Num(112, 2), min |-> Num(1, 0), max |-> Num(4, 0)]

\* C15 witness: the statistics of column c of the rows {c: 1}, {c: 2}, {c: 3},
\* {c: 4} were returned with median 3 and std 1.12.
C15_Witness ==
    /\ pc = "described"
    /\ sColumn = ColC
    /\ [i \in 1..Len(sData) |-> Get(sData[i], ColC)]
           = <<Num(1, 0), Num(2, 0), Num(3, 0), Num(4, 0)>>
    /\ stats.median = Num(3, 0) /\ stats.std = Num(112, 2)

(***************************************************************************)
(* The analytics runs: computeLocalAnalytics on the columns of a profile   *)
(* and a row list.  The Dashboard passes the rows that pass the filters,   *)
(* so a column's type (decided on all the rows of the dataset) and the     *)
(* values of the rows passed are independent of each other.                *)
(***************************************************************************)
Column(name, type) == [name |-> name, type |-> type]

Analyze ==
    /\ pc = "start"
    /\ \E fallback \in FallbackTimes :
          /\ lines' = ComputeLocalAnalytics(aColumns, aRows, fallback)
          /\ fallbackDate' = fallback
    /\ pc' = "analyzed"
    /\ UNCHANGED <<rawColumnNames, nameMap, resanitized, data, profile, values, detected,
                   fData, fFilters, fResult, sData, sColumn, stats, aColumns, aRows>>
    /\ UNCHANGED pearsonVars
    /\ UNCHANGED dashboardVars

(***************************************************************************)
(* The trend run: a column of dates or years and a numeric column.         *)
(***************************************************************************)
MaxTrendRows == 3   \* rows passed to computeLocalAnalytics in a trend run

ColYear == <<"Y", "e", "a", "r">>
ColV == <<"v">>

TrendColumns ==
    { <<Column(ColYear, "date"), Column(ColV, "float")>>,
      <<Column(ColV, "integer")>>,
      <<Column(ColYear, "integer"), Column(ColV, "integer")>>,
      <<Column(ColYear, "string"), Column(ColV, "integer")>>,
      <<Column(ColYear, "date")>> }

TrendRow(year, v) == << <<ColYear, year>>, <<ColV, v>> >>

TrendRows ==
    { TrendRow(IsoDate(2019, 7, 1), Num(50, 0)),
      TrendRow(IsoDate(2020, 7, 1), Num(100, 0)),
      TrendRow(IsoDate(2020, 7, 1), Num(-100, 0)),
      TrendRow(IsoDate(2021, 7, 1), Num(150, 0)),
      TrendRow(Num(2021, 0), Str(<<"x">>)),                   \* {Year: 2021, v: "x"}
      TrendRow(V_Odd, Num(25, 1)) }                           \* {Year: "no. 17", v: 2.5}

InitTrend ==
    /\ aColumns \in TrendColumns
    /\ aRows \in Seqs(TrendRows, MaxTrendRows)
    /\ lines = <<>>
    /\ IdleSanitize /\ IdleProfile /\ IdleDetect /\ IdleFilter /\ IdleStats
    /\ fallbackDate = NaNTime
    /\ pc = "start"
    /\ IdlePearson
    /\ IdleDashboard

NextTrend == Analyze

SpecTrend == InitTrend /\ [][NextTrend]_vars

DateLike(column) == column.type = "date" \/ DateLikeName(column.name)
Numeric(column) == column.type \in {"integer", "float"}

\* the name of the first date-like column, and of the first numeric column
FirstDateLike ==
    aColumns[CHOOSE i \in 1..Len(aColumns) :
                DateLike(aColumns[i]) /\ \A j \in 1..(i - 1) : ~DateLike(aColumns[j])].name

FirstNumeric ==
    aColumns[CHOOSE i \in 1..Len(aColumns) :
                Numeric(aColumns[i]) /\ \A j \in 1..(i - 1) : ~Numeric(aColumns[j])].name

\* the year and the number of row i, and whether the row enters the per-year sums
RowYear(i) == ParseYear(Get(aRows[i], FirstDateLike), fallbackDate)
RowNumber(i) == ToNumber(Get(aRows[i], FirstNumeric))
InYearSums(i) == RowYear(i).ok /\ RowNumber(i).t = "number"

YearsPresent == {RowYear(i).year : i \in {j \in 1..Len(aRows) : InYearSums(j)}}

\* the sum of year y over the rows 1..i, in hundredths
RECURSIVE YearSumTo(_, _)
YearSumTo(y, i) ==
    IF i = 0 THEN 0
    ELSE YearSumTo(y, i - 1)
         + (IF InYearSums(i) /\ RowYear(i).year = y THEN Hundredths(RowNumber(i)) ELSE 0)

YearSum(y) == YearSumTo(y, Len(aRows))

LatestYear == MaxOf(YearsPresent)
PriorYear == MaxOf(YearsPresent \ {LatestYear})

YoyPrefix == <<"Y", "o", "Y", " ", "c", "h", "a", "n", "g", "e", " ", "o", "f", " ">>

IsYoyLine(line) == StartsWith(line, YoyPrefix)

\* the conditions under which a YoY line is due
YoyDue ==
    /\ \E i \in 1..Len(aColumns) : DateLike(aColumns[i])
    /\ \E i \in 1..Len(aColumns) : Numeric(aColumns[i])
    /\ Cardinality(YearsPresent) >= 2
    /\ YearSum(PriorYear) # 0

\* line is the YoY line of the first numeric column from the prior to the latest
\* year, and its value is the fraction 100 * a / d (d > 0) rounded to one decimal
YoyLineWith(line, a, d) ==
    \E t \in {(1000 * a) \div d - 1, (1000 * a) \div d, (1000 * a) \div d + 1} :
        /\ 2 * (t * d - 1000 * a) <= d
        /\ 2 * (1000 * a - t * d) <= d
        /\ \E sign \in {<<"+">>, <<>>} :
              line = YoyPrefix \o FirstNumeric \o <<" ", "f", "r", "o", "m", " ">> \o NatToString(PriorYear)
                     \o <<" ", "t", "o", " ">> \o NatToString(LatestYear) \o <<":", " ">>
                     \o sign \o NumberToString(Num(t, 1)) \o <<"%">>

\* C16 as claimed: a YoY line is emitted if and only if a date-like and a numeric
\* column exist, two distinct years have sums and the sum of the second most
\* recent year is not zero; it names the two greatest years, and its value is
\* ((latest - prior) / prior) * 100 rounded to one decimal.
C16_YoyByPrior ==
    pc = "analyzed" =>
        /\ YoyDue <=> \E k \in 1..Len(lines) : IsYoyLine(lines[k])
        /\ YoyDue =>
              LET latest == YearSum(LatestYear)
                  prior == YearSum(PriorYear)
              IN  \E k \in 1..Len(lines) :
                      IF prior > 0 THEN YoyLineWith(lines[k], latest - prior, prior)
                      ELSE YoyLineWith(lines[k], prior - latest, -prior)

\* C16 amended: as claimed, with the value ((latest - prior) / |prior|) * 100
\* rounded to one decimal.
C16_YoyByAbsPrior ==
    pc = "analyzed" =>
        /\ YoyDue <=> \E k \in 1..Len(lines) : IsYoyLine(lines[k])
        /\ YoyDue =>
              \E k \in 1..Len(lines) :
                  YoyLineWith(lines[k], YearSum(LatestYear) - YearSum(PriorYear),
                              Abs(YearSum(PriorYear)))

\* C16 witness: of three years present the two greatest were compared, the prior
\* year's sum negative and the latest greater, and the line shows a rise.
C16_Witness ==
    /\ pc = "analyzed"
    /\ YoyDue
    /\ Cardinality(YearsPresent) = 3
    /\ YearSum(PriorYear) < 0 /\ YearSum(LatestYear) > 0
    /\ \E k \in 1..Len(lines) : IsYoyLine(lines[k]) /\ Includes(lines[k], <<":", " ", "+">>)

(***************************************************************************)
(* The end-to-end run: a dataset of two rows is profiled, and the profile  *)
(* and its rows go to computeLocalAnalytics, as the Dashboard does when no *)
(* filter is set (rawData is prof.rows, part_003 lines 107-108, 164, 207). *)
(***************************************************************************)
ColAmount == <<"a", "m", "o", "u", "n", "t">>

\* the names of the year column
EndToEndKeys == { <<"y">>, <<"y", "e", "a", "r">>, <<"w", "h", "e", "n">> }

\* the values of the year column in the two rows
EndToEndYears ==
    { <<Str(<<"2", "0", "2", "0">>), Str(<<"2", "0", "2", "1">>)>>,
      <<IsoDate(2020, 1, 1), IsoDate(2021, 1, 1)>> }

\* the values of the amount column in the two rows
EndToEndAmounts ==
    { <<Str(<<"1", "0", "0">>), Str(<<"1", "5", "0">>)>>,
      <<Str(<<"1", "5", "0">>), Str(<<"1", "0", "0">>)>>,
      <<Num(100, 0), Num(1505, 1)>> }

EndToEndData ==
    { << << <<key, years[1]>>, <<ColAmount, amounts[1]>> >>,
         << <<key, years[2]>>, <<ColAmount, amounts[2]>> >> >> :
      key \in EndToEndKeys, years \in EndToEndYears, amounts \in EndToEndAmounts }

InitEndToEnd ==
    /\ data \in {[present |-> TRUE, rows |-> d] : d \in EndToEndData}
    /\ profile = NoProfile
    /\ IdleSanitize /\ IdleDetect /\ IdleFilter /\ IdleStats /\ IdleAnalytics
    /\ fallbackDate = NaNTime
    /\ pc = "start"
    /\ IdlePearson
    /\ IdleDashboard

\* computeLocalAnalytics(dataset, filteredData) on the profile just built, in the
\* engine that built it
AnalyzeProfile ==
    /\ pc = "profiled"
    /\ profile.status = "ok"
    /\ aColumns' = profile.columns
    /\ aRows' = profile.rows
    /\ lines' = ComputeLocalAnalytics(profile.columns, profile.rows, fallbackDate)
    /\ pc' = "analyzed"
    /\ UNCHANGED <<rawColumnNames, nameMap, resanitized, data, profile, values, detected,
                   fData, fFilters, fResult, sData, sColumn, stats, fallbackDate>>
    /\ UNCHANGED pearsonVars
    /\ UNCHANGED dashboardVars

NextEndToEnd == Generate \/ AnalyzeProfile

SpecEndToEnd == InitEndToEnd /\ [][NextEndToEnd]_vars

\* C17 as claimed: profiling [{y: "2020", amount: "100"}, {y: "2021", amount: "150"}]
\* and analysing the profile and its rows gives a YoY line for amount from 2020 to
\* 2021 that contains '+50%'.
C17_EndToEndYoy ==
    (/\ pc = "analyzed"
     /\ data.rows = << << <<<<"y">>, Str(<<"2", "0", "2", "0">>)>>, <<ColAmount, Str(<<"1", "0", "0">>)>> >>,
                       << <<<<"y">>, Str(<<"2", "0", "2", "1">>)>>, <<ColAmount, Str(<<"1", "5", "0">>)>> >> >>) =>
        \E k \in 1..Len(lines) :
            /\ StartsWith(lines[k], YoyPrefix \o ColAmount \o <<" ", "f", "r", "o", "m", " ", "2", "0", "2", "0", " ", "t", "o", " ", "2", "0", "2", "1">>)
            /\ Includes(lines[k], <<"+", "5", "0", "%">>)

(***************************************************************************)
(* The category run: a string column and a numeric column.                 *)
(***************************************************************************)
MaxCategoryRows == 4    \* rows passed to computeLocalAnalytics in a category run

ColCat == <<"c", "a", "t">>

CategoryColumns ==
    { <<Column(ColCat, "string"), Column(ColV, "integer")>>,
      <<Column(ColCat, "date"), Column(ColV, "integer")>> }

CategoryRow(cat, v) == << <<ColCat, cat>>, <<ColV, v>> >>

CategoryRows ==
    { CategoryRow(Str(<<"A">>), Num(10, 0)),
      CategoryRow(Str(<<"B">>), Num(5, 0)),
      CategoryRow(Str(<<"C">>), Num(20, 0)),
      CategoryRow(Str(<<"D">>), Num(-30, 0)),
      CategoryRow(EmptyString, Num(7, 0)),               \* {cat: "", v: 7}
      CategoryRow(Str(<<"B">>), Str(<<"x">>)) }          \* {cat: "B", v: "x"}

InitCategories ==
    /\ aColumns \in CategoryColumns
    /\ aRows \in Seqs(CategoryRows, MaxCategoryRows)
    /\ lines = <<>>
    /\ IdleSanitize /\ IdleProfile /\ IdleDetect /\ IdleFilter /\ IdleStats
    /\ fallbackDate = NaNTime
    /\ pc = "start"
    /\ IdlePearson
    /\ IdleDashboard

NextCategories == Analyze

SpecCategories == InitCategories /\ [][NextCategories]_vars

\* the name of the first string column
FirstString ==
    aColumns[CHOOSE i \in 1..Len(aColumns) :
                aColumns[i].type = "string"
                /\ \A j \in 1..(i - 1) : aColumns[j].type # "string"].name

\* the category of row i, and whether the row enters the totals
RowCategory(i) == CategoryKey(Get(aRows[i], FirstString))
InTotals(i) == RowCategory(i) # <<>> /\ RowNumber(i).t = "number"

Categories == {RowCategory(i) : i \in {j \in 1..Len(aRows) : InTotals(j)}}

\* the total of category c over the rows 1..i, in hundredths
RECURSIVE CategoryTotalTo(_, _)
CategoryTotalTo(c, i) ==
    IF i = 0 THEN 0
    ELSE CategoryTotalTo(c, i - 1)
         + (IF InTotals(i) /\ RowCategory(i) = c THEN Hundredths(RowNumber(i)) ELSE 0)

CategoryTotal(c) == CategoryTotalTo(c, Len(aRows))

RECURSIVE GrandTotalTo(_)
GrandTotalTo(i) ==
    IF i = 0 THEN 0
    ELSE GrandTotalTo(i - 1) + (IF InTotals(i) THEN Hundredths(RowNumber(i)) ELSE 0)

GrandTotal == GrandTotalTo(Len(aRows))

TopPrefix == <<"T", "o", "p", " ">>

IsTopLine(line) == StartsWith(line, TopPrefix)

\* the integers within 1/2 of 100 * total / grand, grand > 0
PercentsOf(total, grand) ==
    {t \in {(100 * total) \div grand - 1, (100 * total) \div grand,
            (100 * total) \div grand + 1} :
        2 * (t * grand - 100 * total) <= grand /\ 2 * (100 * total - t * grand) <= grand}

\* the texts `${c} (${percent}%)` for category c
PartsOf(c) ==
    {c \o <<" ", "(">> \o IntToString(t) \o <<"%", ")">> :
        t \in PercentsOf(CategoryTotal(c), GrandTotal)}

\* top lists categories of greatest total in descending order of total: as many
\* as there are, at most 3
IsTopList(top) ==
    /\ IsDistinctSeq(top)
    /\ Len(top) = (IF Cardinality(Categories) < 3 THEN Cardinality(Categories) ELSE 3)
    /\ \A i \in 1..(Len(top) - 1) : CategoryTotal(top[i]) >= CategoryTotal(top[i + 1])
    /\ \A c \in Categories \ SeqToSet(top) :
          \A i \in 1..Len(top) : CategoryTotal(top[i]) >= CategoryTotal(c)

\* line is the top-category line that lists the categories of top
IsTopLineOf(line, top) ==
    \E parts \in [1..Len(top) -> UNION {PartsOf(c) : c \in Categories}] :
        /\ \A i \in 1..Len(top) : parts[i] \in PartsOf(top[i])
        /\ line = TopPrefix \o FirstString \o <<" ", "b", "y", " ">> \o FirstNumeric \o <<":", " ">>
                  \o Join(parts, <<",", " ">>)

\* C18: a top-category line is emitted only when the grand total is positive;
\* it lists at most the 3 categories of greatest total of the first numeric
\* column per value of the first string column, in descending order of total,
\* each with round(100 * total / grandTotal) percent; for the rows {cat: A, v: 10},
\* {cat: A, v: 10}, {cat: B, v: 5} it reports A at 80% and B at 20%.
C18_TopCategories ==
    pc = "analyzed" =>
        /\ \A k \in 1..Len(lines) :
              IsTopLine(lines[k]) =>
                  /\ GrandTotal > 0
                  /\ \E top \in DistinctSeqs(Categories, 3) :
                        IsTopList(top) /\ IsTopLineOf(lines[k], top)
        /\ (/\ aColumns = <<Column(ColCat, "string"), Column(ColV, "integer")>>
            /\ aRows = <<CategoryRow(Str(<<"A">>), Num(10, 0)),
                         CategoryRow(Str(<<"A">>), Num(10, 0)),
                         CategoryRow(Str(<<"B">>), Num(5, 0))>>) =>
              lines = <<<<"T", "o", "p", " ", "c", "a", "t", " ", "b", "y", " ", "v", ":", " ", "A", " ", "(", "8", "0", "%", ")", ",", " ", "B", " ", "(", "2", "0", "%", ")">>>>

\* C18 witness: four categories had totals, the grand total was positive, and the
\* line lists three of them, the first not the first category of the rows.
C18_Witness ==
    /\ pc = "analyzed"
    /\ \E i \in 1..Len(aColumns) : aColumns[i].type = "string"
    /\ Cardinality(Categories) = 4
    /\ GrandTotal > 0
    /\ RowCategory(1) # <<"C">>
    /\ \E k \in 1..Len(lines) :
          /\ IsTopLine(lines[k])
          /\ \E top \in DistinctSeqs(Categories, 3) :
                Len(top) = 3 /\ top[1] = <<"C">> /\ IsTopLineOf(lines[k], top)

(***************************************************************************)
(* The correlation run: four numeric columns.                              *)
(***************************************************************************)
MaxPairRows == 5    \* rows passed to computeLocalAnalytics in a correlation run

ColA == <<"a">>
ColB == <<"b">>

PairColumns ==
    { <<Column(ColA, "integer"), Column(ColB, "integer"),
        Column(ColC, "integer"), Column(ColD, "float")>> }

PairRow(a, b, c, d) == << <<ColA, a>>, <<ColB, b>>, <<ColC, c>>, <<ColD, d>> >>

PairRows ==
    { PairRow(Num(1, 0), Num(1, 0), Num(2, 0), Num(3, 0)),
      PairRow(Num(2, 0), Num(2, 0), Num(1, 0), Num(2, 0)),
      PairRow(Num(3, 0), Num(3, 0), Num(3, 0), Num(4, 0)),
      PairRow(Num(4, 0), Num(5, 0), Num(4, 0), Num(5, 0)),
      PairRow(Num(5, 0), Num(4, 0), Num(5, 0), Num(6, 0)),
      PairRow(Num(0, 0), EmptyString, Num(0, 0), Num(1, 0)),        \* {a: 0, b: "", c: 0, d: 1}
      PairRow(Num(6, 0), Str(<<"x">>), Num(6, 0), Num(7, 0)) }      \* {a: 6, b: "x", c: 6, d: 7}

InitPairs ==
    /\ aColumns \in PairColumns
    /\ aRows \in DistinctSeqs(PairRows, MaxPairRows)
    /\ lines = <<>>
    /\ IdleSanitize /\ IdleProfile /\ IdleDetect /\ IdleFilter /\ IdleStats
    /\ fallbackDate = NaNTime
    /\ pc = "start"
    /\ IdlePearson
    /\ IdleDashboard

NextPairs == Analyze

SpecPairs == InitPairs /\ [][NextPairs]_vars

\* row i holds a finite numeric value under key: the cell is not the
\* empty-string sentinel and reads as a number
Finite(i, key) ==
    /\ Get(aRows[i], key) # EmptyString
    /\ ToNumber(Get(aRows[i], key)).t = "number"

\* the rows that hold a finite numeric value in both columns
BothFinite(aKey, bKey) ==
    SelectSeq([i \in 1..Len(aRows) |-> i], LAMBDA i : Finite(i, aKey) /\ Finite(i, bKey))

\* r over exactly the rows of BothFinite(aKey, bKey)
FiniteR(aKey, bKey) ==
    LET idx == BothFinite(aKey, bKey)
        aNums == [k \in 1..Len(idx) |-> ToNumber(Get(aRows[idx[k]], aKey))]
        bNums == [k \in 1..Len(idx) |-> ToNumber(Get(aRows[idx[k]], bKey))]
    IN  Pearson([k \in 1..Len(idx) |-> Scaled(aNums[k], MaxExp(aNums))],
                [k \in 1..Len(idx) |-> Scaled(bNums[k], MaxExp(bNums))])

\* the pairs i < j of numeric columns, by name
NumericPairs ==
    LET cols == NumericCols(aColumns)
    IN  UNION {{<<cols[i], cols[j]>> : j \in (i + 1)..Len(cols)} : i \in 1..Len(cols)}

PairMark(pair) == pair[1] \o <<" ", "v", "s", " ">> \o pair[2] \o <<" ", "(", "r", "=">>

CorrelationPrefix == <<"S", "t", "r", "o", "n", "g", " ", "c", "o", "r", "r", "e", "l", "a", "t", "i", "o", "n", "s", ":", " ">>

\* the correlation line names the pair
Listed(pair) ==
    \E k \in 1..Len(lines) :
        StartsWith(lines[k], CorrelationPrefix) /\ Includes(lines[k], PairMark(pair))

\* the pair has at least 5 rows finite in both columns and |r| >= 0.6 over them
Qualifies(pair) ==
    /\ Len(BothFinite(pair[1], pair[2])) >= 5
    /\ Strong(FiniteR(pair[1], pair[2]))

\* C19: a pair of numeric columns is reported as a strong correlation only if at
\* least 5 rows hold a finite numeric value in both columns and |r| >= 0.6 over
\* exactly those rows; a row with the empty-string sentinel in either column is
\* not counted toward the 5 and does not enter r.
C19_CoPresentRows ==
    pc = "analyzed" =>
        \A pair \in NumericPairs :
            Listed(pair) =>
                /\ Qualifies(pair)
                /\ \E k \in 1..Len(lines) :
                      Includes(lines[k], PairText(pair[1], pair[2], FiniteR(pair[1], pair[2])))

\* |r| of pair x is at least |r| of pair y
AtLeastAsStrong(x, y) ==
    FiniteR(x[1], x[2]).p * FiniteR(y[1], y[2]).q >= FiniteR(y[1], y[2]).p * FiniteR(x[1], x[2]).q

\* C20: the correlation line lists at most 3 pairs, and when more than 3 pairs
\* qualify the listed pairs are the 3 qualifying pairs of greatest |r|.
C20_StrongestPairs ==
    pc = "analyzed" =>
        LET listed == {pair \in NumericPairs : Listed(pair)}
            qualifying == {pair \in NumericPairs : Qualifies(pair)}
        IN  /\ Cardinality(listed) <= 3
            /\ Cardinality(qualifying) > 3 =>
                  /\ Cardinality(listed) = 3
                  /\ listed \subseteq qualifying
                  /\ \A x \in listed : \A y \in qualifying \ listed : AtLeastAsStrong(x, y)

(***************************************************************************)
(* The pearson run: pearson(x, y), then pearson(y, x).                     *)
(***************************************************************************)
MaxSamples == 3     \* samples in each list passed to pearson

XValues == {Num(1, 0), Num(2, 0), Num(1, 1)}     \* 1, 2, 0.1
YValues == {Num(1, 0), Num(3, 0)}                \* 1, 3

Doubles(s) == [i \in 1..Len(s) |-> DoubleOfNum(s[i])]

\* x is a list over XValues; y is x itself or a list of the same length over YValues
InitPearson ==
    /\ \E s \in Seqs(XValues, MaxSamples) :
          /\ pearsonX = Doubles(s)
          /\ \E t \in {s} \cup {u \in Seqs(YValues, MaxSamples) : Len(u) = Len(s)} :
                pearsonY = Doubles(t)
    /\ pearsonXY = DoubleZero
    /\ pearsonYX = DoubleZero
    /\ IdleSanitize /\ IdleProfile /\ IdleDetect /\ IdleFilter /\ IdleStats /\ IdleAnalytics
    /\ fallbackDate = NaNTime
    /\ pc = "start"
    /\ IdleDashboard

Correlate ==
    /\ pc = "start"
    /\ pearsonXY' = PearsonDouble(pearsonX, pearsonY)
    /\ pc' = "correlated"
    /\ UNCHANGED <<rawColumnNames, nameMap, resanitized, data, profile, values, detected,
                   fData, fFilters, fResult, sData, sColumn, stats, aColumns, aRows, lines,
                   pearsonX, pearsonY, pearsonYX, fallbackDate>>
    /\ UNCHANGED dashboardVars

CorrelateSwapped ==
    /\ pc = "correlated"
    /\ pearsonYX' = PearsonDouble(pearsonY, pearsonX)
    /\ pc' = "swapped"
    /\ UNCHANGED <<rawColumnNames, nameMap, resanitized, data, profile, values, detected,
                   fData, fFilters, fResult, sData, sColumn, stats, aColumns, aRows, lines,
                   pearsonX, pearsonY, pearsonXY, fallbackDate>>
    /\ UNCHANGED dashboardVars

NextPearson == Correlate \/ CorrelateSwapped

SpecPearson == InitPearson /\ [][NextPearson]_vars

\* every sample of the list is the same number
Constant(x) == \A i, j \in 1..Len(x) : x[i] = x[j]

\* the double is 1 to within 2^-50, the rounding of the operations of pearson
NearOne(d) ==
    LET off == DoubleSub(d, DoubleOfInt(1))
    IN  IsZero(off) \/ off.exp + SignificandBits <= -50

\* C21: pearson(x, y) = pearson(y, x) for equal-length x and y; pearson(x, x)
\* returns 1 (to within the rounding of the double operations) when x is not
\* constant; pearson returns 0 when there are no samples or when either series
\* is constant.
C21_Pearson ==
    /\ pc = "swapped" => pearsonXY = pearsonYX
    /\ pc \in {"correlated", "swapped"} =>
          /\ (pearsonX = pearsonY /\ ~Constant(pearsonX)) => NearOne(pearsonXY)
          /\ (pearsonX = <<>> \/ Constant(pearsonX) \/ Constant(pearsonY)) => IsZero(pearsonXY)

\* C25: a column whose non-empty values are all finite numbers is never typed
\* string by detectColumnType: it is typed integer, float or boolean, whatever
\* share of its values are the tokens 0 and 1.
C25_NumbersNeverString ==
    (/\ pc = "detected"
     /\ values # <<>>
     /\ \A i \in 1..Len(values) : values[i].t = "number") =>
        detected \in {"integer", "float", "boolean"}

\* C26: whenever computeLocalAnalytics emits a YoY line, the numeric column whose
\* values it sums per year is a different column from the date-like column the
\* years are taken from.
C26_YoyDistinctColumns ==
    (pc = "analyzed" /\ \E k \in 1..Len(lines) : IsYoyLine(lines[k])) =>
        FirstNumeric # FirstDateLike

\* the texts `${c} (${percent}%)` for category c with a percent in lo..hi
PartsWithin(c, lo, hi) ==
    {c \o <<" ", "(">> \o IntToString(t) \o <<"%", ")">> :
        t \in PercentsOf(CategoryTotal(c), GrandTotal) \cap lo..hi}

\* line is the top-category line that lists the categories of top, each with a
\* percent in lo..hi
IsTopLineWithin(line, top, lo, hi) ==
    \E parts \in [1..Len(top) -> UNION {PartsWithin(c, lo, hi) : c \in Categories}] :
        /\ \A i \in 1..Len(top) : parts[i] \in PartsWithin(top[i], lo, hi)
        /\ line = TopPrefix \o FirstString \o <<" ", "b", "y", " ">> \o FirstNumeric \o <<":", " ">>
                  \o Join(parts, <<",", " ">>)

\* C30: every percentage reported in the top-category insight lies between 0 and
\* 100 inclusive, for every row set for which the insight is emitted, row sets
\* with negative category totals included.
C30_PercentWithinRange ==
    pc = "analyzed" =>
        \A k \in 1..Len(lines) :
            IsTopLine(lines[k]) =>
                \E top \in DistinctSeqs(Categories, 3) : IsTopLineWithin(lines[k], top, 0, 100)

(***************************************************************************)
(* The Dashboard (part_003): its state, its ingestion handlers with their   *)
(* await points, the filter bar and the URL hash (urlState.ts).  React      *)
(* 19.1.1 (README.md line 5) commits the setState calls of one synchronous  *)
(* stretch of a handler together, so an action below is one such stretch    *)
(* followed by the effects its commit triggers.                             *)
(***************************************************************************)
\* the characters of the model in the order of their UTF-16 code units
CodeUnits ==
    <<" ", "(", ")", ",", "-", ".", "/">> \o Digits \o <<":">> \o UpperChars \o <<"_">>
    \o LowerChars

CharCode(c) == CHOOSE i \in 1..Len(CodeUnits) : CodeUnits[i] = c

\* a < b for two strings, compared by code units
RECURSIVE StringLess(_, _)
StringLess(a, b) ==
    IF b = <<>> THEN FALSE
    ELSE IF a = <<>> THEN TRUE
    ELSE IF Head(a) = Head(b) THEN StringLess(Tail(a), Tail(b))
    ELSE CharCode(Head(a)) < CharCode(Head(b))

\* v put into a list sorted by String(v) at its place, after its equals
RECURSIVE InsertByString(_, _)
InsertByString(v, s) ==
    IF s = <<>> THEN <<v>>
    ELSE IF StringLess(JsString(v), JsString(Head(s))) THEN <<v>> \o s
    ELSE <<Head(s)>> \o InsertByString(v, Tail(s))

\* Array.prototype.sort() without a comparator: by String(v), stable
RECURSIVE DefaultSort(_)
DefaultSort(s) ==
    IF s = <<>> THEN <<>>
    ELSE InsertByString(s[Len(s)], DefaultSort(SubSeq(s, 1, Len(s) - 1)))

\* getUniqueValues(data, column)
GetUniqueValues(rows, column) ==
    DefaultSort(Unique(SelectSeq([i \in 1..Len(rows) |-> Get(rows[i], column)], NonEmpty)))

\* Boolean(v)
Truthy(v) ==
    /\ v \notin {Undefined, Null, NaN, EmptyString, Bool(FALSE)}
    /\ ~(v.t = "number" /\ v.m = 0)

\* FilterConfig.selected: an array (multiselect) or {min, max}
SelectedList(list) == [isArray |-> TRUE, list |-> list, min |-> Undefined, max |-> Undefined]

SelectedRange(min, max) == [isArray |-> FALSE, list |-> <<>>, min |-> min, max |-> max]

FilterConfig(column, type, vals, min, max, selected) ==
    [column |-> column, type |-> type, values |-> vals, min |-> min, max |-> max,
     selected |-> selected]

\* what the loop over prof.columns pushes for one column: a list of no or one
\* FilterConfig.  The upload handler drops null, undefined and '' before
\* new Date(v); the URL import drops every falsy value (filter(Boolean)).
InitialFilter(col, rows, kind, fallback) ==
    LET numericVals == SelectSeq([i \in 1..Len(rows) |-> ParseFloat(Get(rows[i], col.name))],
                                 LAMBDA n : ~IsNaN(n))
        present == SelectSeq([i \in 1..Len(rows) |-> Get(rows[i], col.name)],
                             LAMBDA v : IF kind = "file" THEN NonEmpty(v) ELSE Truthy(v))
        dates == SelectSeq([i \in 1..Len(present) |-> DateOfValue(present[i], fallback)],
                           LAMBDA d : d.ok)
    IN  IF col.type = "string"
        THEN <<FilterConfig(col.name, "multiselect", GetUniqueValues(rows, col.name),
                            Undefined, Undefined, SelectedList(<<>>))>>
        ELSE IF col.type \in {"integer", "float"}
        THEN IF Len(numericVals) > 0
             THEN LET min == MathMin(numericVals)
                      max == MathMax(numericVals)
                  IN  <<FilterConfig(col.name, "range", <<>>, min, max,
                                     SelectedRange(min, max))>>
             ELSE <<>>
        ELSE IF col.type = "date"
        THEN IF Len(dates) > 0
             THEN LET minDate == Str(SubSeq(ToISOString(EarliestTime(dates)), 1, 10))
                      maxDate == Str(SubSeq(ToISOString(LatestTime(dates)), 1, 10))
                  IN  <<FilterConfig(col.name, "date_range", <<>>, minDate, maxDate,
                                     SelectedRange(minDate, maxDate))>>
             ELSE <<>>
        ELSE <<>>

\* initialFilters after the columns from index i on
RECURSIVE InitialFiltersFrom(_, _, _, _, _)
InitialFiltersFrom(columns, rows, kind, fallback, i) ==
    IF i > Len(columns) THEN <<>>
    ELSE InitialFilter(columns[i], rows, kind, fallback)
         \o InitialFiltersFrom(columns, rows, kind, fallback, i + 1)

InitialFilters(columns, rows, kind, fallback) ==
    InitialFiltersFrom(columns, rows, kind, fallback, 1)

\* the callback of filters.some in filteredData: whether filter f is set
IsActive(f) ==
    CASE f.type = "multiselect" -> f.selected.isArray /\ Len(f.selected.list) > 0
      [] f.type = "range" -> f.selected.min # Undefined \/ f.selected.max # Undefined
      [] f.type = "date_range" -> Truthy(f.selected.min) \/ Truthy(f.selected.max)
      [] OTHER -> FALSE

\* a ?? b
Nullish(a, b) == IF a = Undefined \/ a = Null THEN b ELSE a

\* the callback of filters.map in filteredData
SimpleFilter(f) ==
    CASE f.type = "multiselect" ->
            Filter(f.column, TRUE, IF f.selected.isArray THEN f.selected.list ELSE <<>>,
                   Undefined, Undefined)
      [] f.type = "range" ->
            Filter(f.column, FALSE, <<>>, Nullish(f.selected.min, f.min),
                   Nullish(f.selected.max, f.max))
      [] f.type = "date_range" ->
            Filter(f.column, FALSE, <<>>, f.selected.min, f.selected.max)
      [] OTHER -> Filter(f.column, FALSE, <<>>, Undefined, Undefined)

\* the filteredData memo
FilteredData(rows, fs, fallback) ==
    IF ~\E i \in 1..Len(fs) : IsActive(fs[i]) THEN rows
    ELSE ApplyFilters(rows, [i \in 1..Len(fs) |-> SimpleFilter(fs[i])], fallback)

\* JSON.parse(JSON.stringify(v)) of a property value: NaN is written as null,
\* and an undefined property is left out and reads back as undefined
JsonValue(v) == IF v = NaN THEN Null ELSE v

JsonSelected(selected) ==
    [isArray |-> selected.isArray,
     list |-> [i \in 1..Len(selected.list) |->
                  IF selected.list[i] = Undefined THEN Null ELSE JsonValue(selected.list[i])],
     min |-> JsonValue(selected.min), max |-> JsonValue(selected.max)]

\* encodeFiltersToHash(filters): the hash it leaves in the address bar, as the
\* payload that atob and JSON.parse read back from it
EncodeFiltersToHash(fs) ==
    [present |-> TRUE,
     payload |-> [i \in 1..Len(fs) |->
                     [column |-> fs[i].column, type |-> fs[i].type,
                      selected |-> JsonSelected(fs[i].selected)]]]

\* decodeFiltersFromHash(): null (ok FALSE) without a state= part
DecodeFiltersFromHash(h) ==
    IF ~h.present THEN [ok |-> FALSE, filters |-> <<>>]
    ELSE [ok |-> TRUE, filters |-> h.payload]

\* the updater of the mount effect: prev with the selections of the preset
\* filters that name one of its columns (the last such preset filter wins)
MergePreset(prev, presetFilters) ==
    [i \in 1..Len(prev) |->
        LET named == {j \in 1..Len(presetFilters) : presetFilters[j].column = prev[i].column}
        IN  IF named = {} THEN prev[i]
            ELSE [prev[i] EXCEPT !.selected =
                     presetFilters[CHOOSE j \in named : \A k \in named : k <= j].selected]]

MaxIngestions == 2  \* ingestions started in one run of the Dashboard

ColGeneric == <<"C", "o", "l", "u", "m", "n", "_", "1">>

ColWhen == <<"w", "h", "e", "n">>

ColN == <<"n">>

NameCity == <<"c", "i", "t", "y">>

\* the files and URLs the user picks from, as the rows the parser hands to
\* generateDatasetProfile and the name of the dataset
Sources ==
    { [name |-> <<"a", ".", "c", "s", "v">>,
       rows |-> << << <<ColGeneric, Str(<<"x">>)>>, <<ColWhen, IsoDate(2020, 1, 15)>> >>,
                   << <<ColGeneric, Str(<<"4", "2">>)>>, <<ColWhen, V_MonthDay>> >> >>],
      [name |-> <<"b", ".", "c", "s", "v">>,
       rows |-> << << <<ColN, Str(<<"2">>)>> >>, << <<ColN, Str(<<"3">>)>> >>,
                   << <<ColN, Str(<<"4">>)>> >>, << <<ColN, Str(<<"5">>)>> >>,
                   << <<ColN, V_MonthDay>> >> >>],
      [name |-> <<"c", ".", "c", "s", "v">>, rows |-> <<>>] }

\* /^Column_/i.test(name) || /__?EMPTY/i.test(name)
IsGeneric(name) ==
    LET lower == ToLowerCase(name)
    IN  \/ Len(lower) >= 7 /\ SubSeq(lower, 1, 7) = <<"c", "o", "l", "u", "m", "n", "_">>
        \/ Includes(lower, <<"_", "e", "m", "p", "t", "y">>)

\* what suggestColumnNames(datasetProfile) can resolve to: {} when no column has
\* a generic name or the service fails, else a map from some of the generic
\* names to the names the service proposes.  A map is a list of <<from, to>>.
RenameMaps(datasetProfile) ==
    LET generic == {i \in 1..Len(datasetProfile.columns) :
                        IsGeneric(datasetProfile.columns[i].name)}
    IN  {<<>>} \cup { << <<datasetProfile.columns[i].name, NameCity>> >> : i \in generic }

\* renameMap[k] || k
Renamed(renameMap, k) ==
    IF \E i \in 1..Len(renameMap) : renameMap[i][1] = k /\ renameMap[i][2] # <<>>
    THEN renameMap[CHOOSE i \in 1..Len(renameMap) : renameMap[i][1] = k][2]
    ELSE k

\* newRow after the keys of row from index i on
RECURSIVE RenameRowFrom(_, _, _, _)
RenameRowFrom(row, renameMap, i, newRow) ==
    IF i > Len(row) THEN newRow
    ELSE RenameRowFrom(row, renameMap, i + 1,
                       Set(newRow, Renamed(renameMap, row[i][1]), row[i][2]))

\* prof in handleFileUpload (lines 92-105)
RenamedProfile(datasetProfile, renameMap) ==
    IF Len(renameMap) > 0
    THEN [datasetProfile EXCEPT
            !.columns = [i \in 1..Len(datasetProfile.columns) |->
                            [datasetProfile.columns[i] EXCEPT
                                !.name = Renamed(renameMap, datasetProfile.columns[i].name)]],
            !.sample_rows = [i \in 1..Len(datasetProfile.rows) |->
                                RenameRowFrom(datasetProfile.rows[i], renameMap, 1, <<>>)]]
    ELSE datasetProfile

\* the hash the page is opened with: none, or one written by
\* encodeFiltersToHash when a selection was made on the filters of a.csv
SharedHashes ==
    { NoHash,
      EncodeFiltersToHash(<<FilterConfig(ColGeneric, "multiselect",
                                         <<Num(42, 0), Str(<<"x">>)>>, Undefined, Undefined,
                                         SelectedList(<<Str(<<"x">>)>>))>>) }

\* the locals of one run of an ingestion handler, and the step it waits for
Ingestion(kind, stage, source, datasetProfile) ==
    [kind |-> kind, stage |-> stage, source |-> source, datasetProfile |-> datasetProfile,
     renameMap |-> <<>>]

InitDashboard ==
    /\ dataset = NoProfile /\ rawData = <<>> /\ filterConfigs = <<>> /\ visualizations = 0
    /\ origin = NoOrigin
    /\ hash \in SharedHashes
    /\ mounted = FALSE
    /\ ingestions = <<>>
    /\ fallbackDate \in FallbackTimes
    /\ parser = [source \in Sources |->
                    GenerateDatasetProfile([present |-> TRUE, rows |-> source.rows],
                                           source.name, fallbackDate)]
    /\ IdleSanitize /\ IdleProfile /\ IdleDetect /\ IdleFilter /\ IdleStats /\ IdleAnalytics
    /\ IdlePearson
    /\ pc = "start"

\* the two mount effects, in the order of their declaration: the [filters] effect
\* writes the hash, then the [] effect reads it and merges a non-empty preset
Mount ==
    /\ ~mounted
    /\ LET written == EncodeFiltersToHash(filterConfigs)
           preset == DecodeFiltersFromHash(written)
           merged == IF preset.ok /\ Len(preset.filters) > 0
                     THEN MergePreset(filterConfigs, preset.filters)
                     ELSE filterConfigs
       IN  /\ filterConfigs' = merged
           /\ hash' = EncodeFiltersToHash(merged)
    /\ mounted' = TRUE
    /\ UNCHANGED <<dataset, rawData, visualizations, origin, ingestions, parser>>
    /\ UNCHANGED <<rawColumnNames, nameMap, resanitized, data, profile, values, detected,
                   fData, fFilters, fResult, sData, sColumn, stats, aColumns, aRows, lines,
                   fallbackDate, pc>>
    /\ UNCHANGED pearsonVars

\* handleFileUpload(file) up to `await parseDataFile(file)`
StartUpload ==
    /\ mounted
    /\ Len(ingestions) < MaxIngestions
    /\ \E source \in Sources :
          ingestions' = Append(ingestions, Ingestion("file", "parsing", source, NoProfile))
    /\ UNCHANGED <<dataset, rawData, filterConfigs, visualizations, origin, hash, mounted, parser>>
    /\ UNCHANGED <<rawColumnNames, nameMap, resanitized, data, profile, values, detected,
                   fData, fFilters, fResult, sData, sColumn, stats, aColumns, aRows, lines,
                   fallbackDate, pc>>
    /\ UNCHANGED pearsonVars

\* the URL import's onClick up to `await parseFromUrl(url)`
StartUrlImport ==
    /\ mounted
    /\ Len(ingestions) < MaxIngestions
    /\ \E source \in Sources :
          ingestions' = Append(ingestions, Ingestion("url", "parsing", source, NoProfile))
    /\ UNCHANGED <<dataset, rawData, filterConfigs, visualizations, origin, hash, mounted, parser>>
    /\ UNCHANGED <<rawColumnNames, nameMap, resanitized, data, profile, values, detected,
                   fData, fFilters, fResult, sData, sColumn, stats, aColumns, aRows, lines,
                   fallbackDate, pc>>
    /\ UNCHANGED pearsonVars

\* the profile the parser of ingestion j resolves to, or the error it rejects with
Parsed(j) == parser[ingestions[j].source]

\* parseDataFile or parseFromUrl rejects: the catch block sets the error only
ParseFailed ==
    /\ \E j \in 1..Len(ingestions) :
          /\ ingestions[j].stage = "parsing"
          /\ Parsed(j).status = "thrown"
          /\ ingestions' = [ingestions EXCEPT ![j].stage = "failed"]
    /\ UNCHANGED <<dataset, rawData, filterConfigs, visualizations, origin, hash, mounted, parser>>
    /\ UNCHANGED <<rawColumnNames, nameMap, resanitized, data, profile, values, detected,
                   fData, fFilters, fResult, sData, sColumn, stats, aColumns, aRows, lines,
                   fallbackDate, pc>>
    /\ UNCHANGED pearsonVars

\* handleFileUpload from the resolution of parseDataFile to
\* `await suggestColumnNames(datasetProfile)`
ParseFileDone ==
    /\ \E j \in 1..Len(ingestions) :
          /\ ingestions[j].kind = "file"
          /\ ingestions[j].stage = "parsing"
          /\ Parsed(j).status = "ok"
          /\ ingestions' = [ingestions EXCEPT ![j].stage = "renaming",
                                              ![j].datasetProfile = Parsed(j)]
    /\ UNCHANGED <<dataset, rawData, filterConfigs, visualizations, origin, hash, mounted, parser>>
    /\ UNCHANGED <<rawColumnNames, nameMap, resanitized, data, profile, values, detected,
                   fData, fFilters, fResult, sData, sColumn, stats, aColumns, aRows, lines,
                   fallbackDate, pc>>
    /\ UNCHANGED pearsonVars

\* Commit with a render between setDataset and the two calls after it: the
\* profile of ingestion j is shown with the rows and filters set before
CommitProfileFirst(j, prof, initialFilters) ==
    /\ dataset' = prof
    /\ origin' = [origin EXCEPT !.dataset = j]
    /\ UNCHANGED <<rawData, filterConfigs, hash>>

\* the state after setDataset, setRawData and setFilters of ingestion j have been
\* committed and the [filters] effect has run
Commit(j, prof, initialFilters) ==
    /\ dataset' = prof
    /\ rawData' = prof.rows
    /\ filterConfigs' = initialFilters
    /\ hash' = EncodeFiltersToHash(initialFilters)
    /\ origin' = [dataset |-> j, rawData |-> j, filters |-> j]

\* handleFileUpload from the resolution of suggestColumnNames to
\* `await generateVisualizationSuggestions(profile)` in generateAISuggestions
RenameDone ==
    /\ \E j \in 1..Len(ingestions) :
          /\ ingestions[j].stage = "renaming"
          /\ \E renameMap \in RenameMaps(ingestions[j].datasetProfile) :
                LET datasetProfile == ingestions[j].datasetProfile
                    prof == RenamedProfile(datasetProfile, renameMap)
                IN  /\ Commit(j, prof,
                              InitialFilters(prof.columns, datasetProfile.rows, "file",
                                             fallbackDate))
                    /\ ingestions' = [ingestions EXCEPT ![j].stage = "suggesting",
                                                        ![j].datasetProfile = prof,
                                                        ![j].renameMap = renameMap]
    /\ UNCHANGED <<visualizations, mounted, parser>>
    /\ UNCHANGED <<rawColumnNames, nameMap, resanitized, data, profile, values, detected,
                   fData, fFilters, fResult, sData, sColumn, stats, aColumns, aRows, lines,
                   fallbackDate, pc>>
    /\ UNCHANGED pearsonVars

\* the URL import from the resolution of parseFromUrl to
\* `await generateVisualizationSuggestions(profile)` in generateAISuggestions
ParseUrlDone ==
    /\ \E j \in 1..Len(ingestions) :
          /\ ingestions[j].kind = "url"
          /\ ingestions[j].stage = "parsing"
          /\ Parsed(j).status = "ok"
          /\ LET prof == Parsed(j)
             IN  /\ Commit(j, prof,
                           InitialFilters(prof.columns, prof.rows, "url", fallbackDate))
                 /\ ingestions' = [ingestions EXCEPT ![j].stage = "suggesting",
                                                     ![j].datasetProfile = prof]
    /\ UNCHANGED <<visualizations, mounted, parser>>
    /\ UNCHANGED <<rawColumnNames, nameMap, resanitized, data, profile, values, detected,
                   fData, fFilters, fResult, sData, sColumn, stats, aColumns, aRows, lines,
                   fallbackDate, pc>>
    /\ UNCHANGED pearsonVars

\* generateAISuggestions from the resolution of generateVisualizationSuggestions:
\* setVisualizations(response.visualizations), the suggestions made for the
\* profile of ingestion j
SuggestionsDone ==
    /\ \E j \in 1..Len(ingestions) :
          /\ ingestions[j].stage = "suggesting"
          /\ visualizations' = j
          /\ ingestions' = [ingestions EXCEPT ![j].stage = "done"]
    /\ UNCHANGED <<dataset, rawData, filterConfigs, origin, hash, mounted, parser>>
    /\ UNCHANGED <<rawColumnNames, nameMap, resanitized, data, profile, values, detected,
                   fData, fFilters, fResult, sData, sColumn, stats, aColumns, aRows, lines,
                   fallbackDate, pc>>
    /\ UNCHANGED pearsonVars

\* the options the MultiSelect of filter f shows: f.values.map(String)
Options(f) == [i \in 1..Len(f.values) |-> Str(JsString(f.values[i]))]

\* toggle(val) in MultiSelect: val leaves the selection if it is in it, else it
\* is added at the end
Toggle(selectedList, val) ==
    LET shown == [i \in 1..Len(selectedList) |-> Str(JsString(selectedList[i]))]
    IN  IF \E i \in 1..Len(shown) : shown[i] = val
        THEN SelectSeq(Unique(shown), LAMBDA v : v # val)
        ELSE Append(Unique(shown), val)

\* a click on one option of a multiselect filter, and the [filters] effect
ToggleOption ==
    /\ dataset # NoProfile
    /\ \E k \in 1..Len(filterConfigs) :
          /\ filterConfigs[k].type = "multiselect"
          /\ \E o \in 1..Len(filterConfigs[k].values) :
                LET vals == Toggle(IF filterConfigs[k].selected.isArray
                                   THEN filterConfigs[k].selected.list ELSE <<>>,
                                   Options(filterConfigs[k])[o])
                IN  filterConfigs' =
                        [i \in 1..Len(filterConfigs) |->
                            IF filterConfigs[i].column = filterConfigs[k].column
                            THEN [filterConfigs[i] EXCEPT !.selected = SelectedList(vals)]
                            ELSE filterConfigs[i]]
    /\ hash' = EncodeFiltersToHash(filterConfigs')
    /\ UNCHANGED <<dataset, rawData, visualizations, origin, mounted, ingestions, parser>>
    /\ UNCHANGED <<rawColumnNames, nameMap, resanitized, data, profile, values, detected,
                   fData, fFilters, fResult, sData, sColumn, stats, aColumns, aRows, lines,
                   fallbackDate, pc>>
    /\ UNCHANGED pearsonVars

\* the updater of "Clear all"
Cleared(f) ==
    CASE f.type = "multiselect" -> [f EXCEPT !.selected = SelectedList(<<>>)]
      [] f.type \in {"range", "date_range"} ->
            [f EXCEPT !.selected = SelectedRange(f.min, f.max)]
      [] OTHER -> f

\* a click on "Clear all", shown while dataset && filters.length > 0, and the
\* [filters] effect
ClearAll ==
    /\ dataset # NoProfile
    /\ Len(filterConfigs) > 0
    /\ filterConfigs' = [i \in 1..Len(filterConfigs) |-> Cleared(filterConfigs[i])]
    /\ hash' = EncodeFiltersToHash(filterConfigs')
    /\ UNCHANGED <<dataset, rawData, visualizations, origin, mounted, ingestions, parser>>
    /\ UNCHANGED <<rawColumnNames, nameMap, resanitized, data, profile, values, detected,
                   fData, fFilters, fResult, sData, sColumn, stats, aColumns, aRows, lines,
                   fallbackDate, pc>>
    /\ UNCHANGED pearsonVars

NextDashboard ==
    \/ Mount
    \/ StartUpload
    \/ StartUrlImport
    \/ ParseFailed
    \/ ParseFileDone
    \/ RenameDone
    \/ ParseUrlDone
    \/ SuggestionsDone
    \/ ToggleOption
    \/ ClearAll

SpecDashboard == InitDashboard /\ [][NextDashboard]_vars

\* every ingestion started has run all its asynchronous steps
AllCompleted == \A j \in 1..Len(ingestions) : ingestions[j].stage = "done"

\* C22: when a second ingestion is started before an earlier one has finished
\* its asynchronous steps, then once both have completed, dataset, rawData,
\* filters and visualizations are those of the most recently started ingestion.
C22_LatestIngestionWins ==
    (Len(ingestions) >= 2 /\ AllCompleted) =>
        LET latest == Len(ingestions)
        IN  /\ dataset = ingestions[latest].datasetProfile
            /\ rawData = ingestions[latest].datasetProfile.rows
            /\ origin.filters = latest
            /\ visualizations = latest

\* the filters with every selection at its default
Defaults(fs) == [i \in 1..Len(fs) |-> Cleared(fs[i])]

\* C23: after an ingestion whose column-rename step returned a non-empty rename
\* map, every column name of the stored dataset profile is a key of every row in
\* rawData, and the filters of that ingestion are computed from the values of
\* those same columns (the rows the profile keeps under its column names).
C23_RenameKeepsStateConsistent ==
    \A j \in 1..Len(ingestions) :
        (origin.dataset = j /\ Len(ingestions[j].renameMap) > 0) =>
            /\ \A c \in 1..Len(dataset.columns), r \in 1..Len(rawData) :
                  HasKey(rawData[r], dataset.columns[c].name)
            /\ Defaults(filterConfigs) =
                  InitialFilters(dataset.columns, dataset.sample_rows, "file", fallbackDate)

\* C24: in every state of the Dashboard between two events, the dataset profile,
\* rawData and the filters come from the same ingestion: rawData are the rows of
\* the stored profile and every filter is on one of its columns.
C24_DatasetReplacedAtomically ==
    /\ origin.dataset = origin.rawData
    /\ origin.dataset = origin.filters
    /\ rawData = dataset.rows
    /\ \A k \in 1..Len(filterConfigs) :
          \E c \in 1..Len(dataset.columns) : dataset.columns[c].name = filterConfigs[k].column

\* an ingestion has replaced the state that an earlier one had set
C24_Witness ==
    /\ Len(ingestions) = 2
    /\ \A j \in 1..2 : ingestions[j].stage \in {"suggesting", "done"}
    /\ ingestions[1].source # ingestions[2].source
    /\ origin.dataset = 2
    /\ Len(filterConfigs) > 0

\* C27: with every filter at its default selection (after an ingestion, and after
\* "Clear all"), filteredData contains every row of rawData, rows with missing,
\* non-numeric or date-with-time values in a filtered column included.
C27_DefaultFiltersHideNoRow ==
    (dataset # NoProfile /\ filterConfigs = Defaults(filterConfigs)) =>
        FilteredData(rawData, filterConfigs, fallbackDate) = rawData

\* the filters with the selection of filter k cleared
WithoutSelection(k) ==
    [i \in 1..Len(filterConfigs) |->
        IF i = k THEN Cleared(filterConfigs[i]) ELSE filterConfigs[i]]

\* C28: when options are selected in a multiselect filter, filteredData keeps
\* every row whose value in that column is displayed as one of the selected
\* options (String(value) equals the option) and that the other filters keep,
\* rows whose stored value is a number included.
C28_SelectedOptionsKeepRows ==
    \A k \in 1..Len(filterConfigs) :
        (filterConfigs[k].type = "multiselect" /\ Len(filterConfigs[k].selected.list) > 0) =>
            \A r \in 1..Len(rawData) :
                (/\ Str(JsString(Get(rawData[r], filterConfigs[k].column)))
                        \in SeqToSet(filterConfigs[k].selected.list)
                 /\ rawData[r] \in SeqToSet(FilteredData(rawData, WithoutSelection(k),
                                                         fallbackDate)))
                => rawData[r] \in SeqToSet(FilteredData(rawData, filterConfigs, fallbackDate))

(***************************************************************************)
(* The Dashboard opened from a shared link: the hash carries selections,   *)
(* datasets are loaded, and the filter bar is left alone.                  *)
(***************************************************************************)
InitSharedLink == InitDashboard /\ hash.present

NextSharedLink ==
    \/ Mount
    \/ StartUpload
    \/ StartUrlImport
    \/ ParseFailed
    \/ ParseFileDone
    \/ RenameDone
    \/ ParseUrlDone
    \/ SuggestionsDone

SpecSharedLink == InitSharedLink /\ [][NextSharedLink]_vars

\* the selections of the hash the page was opened with
SharedSelections == (CHOOSE h \in SharedHashes : h.present).payload

\* C29: if the page is opened with a hash written by encodeFiltersToHash, then
\* once the Dashboard has mounted and a dataset with the same filter columns is
\* loaded, the filters on those columns carry the selections from the hash.
C29_HashSelectionsCarried ==
    (mounted /\ dataset # NoProfile) =>
        \A k \in 1..Len(filterConfigs), p \in 1..Len(SharedSelections) :
            filterConfigs[k].column = SharedSelections[p].column =>
                filterConfigs[k].selected = SharedSelections[p].selected

====
